---- MODULE Spec2Model ----
(***************************************************************************)
(* Semantic product search of arjanssuri/thread: the embedding provider    *)
(* (Elasticsearch inference with one cold-start retry), the products       *)
(* index, the Supabase -> Elasticsearch sync and the ranking pipeline      *)
(* runSemanticSearch.                                                      *)
(*                                                                         *)
(* Execution is single-threaded async code: a call stack of frames, one    *)
(* action per stretch of code between two awaits.  External services       *)
(* (inference endpoint, index, Supabase) answer nondeterministically       *)
(* within their wire contract.                                             *)
(*                                                                         *)
(* Strings are sequences of one-character strings; an optional value is    *)
(* <<>> (null / undefined) or <<v>>.  Similarities are exact rationals     *)
(* [num, den] standing for the doubles the code computes.                  *)
(***************************************************************************)
EXTENDS Integers, Sequences, FiniteSets, TLC

\* The fields of the records of the model (frames, events, requests and
\* results), in the order every record below lists them.
FieldIndex ==
    [arg |-> 1, attempt |-> 2, bool |-> 3, boost |-> 4, brand |-> 5,
     category |-> 6, clause |-> 7, client |-> 8, count |-> 9,
     debounce |-> 10, den |-> 11, description |-> 12, docs |-> 13,
     embeddings |-> 14, errors |-> 15, ev |-> 16, exists |-> 17,
     expectedCount |-> 18, failed |-> 19, field |-> 20, fn |-> 21,
     from |-> 22, hasSource |-> 23, i |-> 24, id |-> 25, indexed |-> 26,
     inferenceId |-> 27, inference_results |-> 28, inflight |-> 29,
     input |-> 30, inputType |-> 31, input_type |-> 32, issued |-> 33,
     k |-> 34, kind |-> 35, len |-> 36, limit |-> 37, loading |-> 38,
     msg |-> 39, must |-> 40, n |-> 41, name |-> 42, nodes |-> 43,
     num |-> 44, num_candidates |-> 45, optCategory |-> 46,
     optLimit |-> 47, outcome |-> 48, pc |-> 49, query |-> 50,
     queryText |-> 51, rejected |-> 52, res |-> 53, result |-> 54,
     results |-> 55, score |-> 56, shape |-> 57, should |-> 58,
     silent |-> 59, similarity |-> 60, single |-> 61, size |-> 62,
     skipped |-> 63, syncThrew |-> 64, text |-> 65, text_embedding |-> 66,
     texts |-> 67, total |-> 68, trace |-> 69, trimmed |-> 70, val |-> 71,
     valid |-> 72, value |-> 73, vectors |-> 74]

VARIABLES
    table,      \* rows of the Supabase products table (system of record)
    esExists,   \* whether the Elasticsearch index "products" exists
    esDocs,     \* documents of the index: id -> category
    stack,      \* call stack of the running request, innermost frame last
    ret,        \* value returned / error thrown by the frame popped last
    log,        \* history: calls, external requests and waits of the running top-level call
    lastInfer,  \* history: the callInferenceApi call that completed last
    es0,        \* history: index state when the running top-level call began
    faults,     \* history: failed external requests of the running top-level call
    faultBudget,\* environment: how many requests of one top-level call may fail
    prevEnsured,\* history: an ensureProductsIndex call has just returned, and only
                \* ensureProductsIndex has been called since
    config,     \* environment: whether the Elasticsearch client and the inference
                \* id are configured (fixed when the module is loaded)
    peer,       \* an ensureProductsIndex invocation of another request, running
                \* concurrently with the call on the stack
    page        \* the search page of the frontend: its React state, its debounce
                \* timer and the graph fetches it has issued

vars == <<table, esExists, esDocs, stack, ret, log, lastInfer, es0, faults,
          faultBudget, prevEnsured, config, peer, page>>

-----------------------------------------------------------------------------
(* Bounds of the model *)

MaxRows == 1
MaxRankRows == 3
MaxQueryLen == 1
MaxTexts == 101
MaxFaults == 1
MaxSyncRows == 2
MaxFieldLen == 2
MaxPieces == 3
MaxExpected == 2
MaxPad == 1
MaxFetches == 4

-----------------------------------------------------------------------------
(* Program constants *)

INFERENCE_BATCH_SIZE == 50
DEPLOYMENT_TIMEOUT_RETRY_DELAY_MS == 45000
defaultLimit == 20
MaxLimit == 500
MaxTextLen == 8191
NameBoost == 15
DescriptionBoost == 10
POLL_INTERVAL_MS == 15000
MAX_POLL_ATTEMPTS == 40

-----------------------------------------------------------------------------
(* Values *)

None == <<>>
Some(x) == <<x>>
Min(a, b) == IF a <= b THEN a ELSE b
Max(a, b) == IF a >= b THEN a ELSE b

Chars == {" ", "a"}
Strings(n) == UNION {[1..k -> Chars] : k \in 0..n}

RowCategories == {None, Some(<<"s">>)}
Tables == UNION {[1..k -> RowCategories] : k \in 0..MaxRows}

Queries == Strings(MaxQueryLen)
OptLimits == {None, Some(-1), Some(0), Some(1), Some(501)}
OptCategories == {None, Some(<<" ">>), Some(<<"s", " ">>)}

ColdStartMessages == {"model_deployment_timeout_exception"}
OtherMessages == {"connection refused"}
ShapeError == "Unexpected inference API response shape. Check server logs for response keys."
NoVectorError == "Inference returned no vector"
TransportError == "connection refused"
AlreadyExistsError == "resource_already_exists_exception"
IndexNotFoundError == "index_not_found_exception"
IllegalArgumentError == "illegal_argument_exception"
SupabaseError == "supabase error"
InferenceConfigError == "Elasticsearch or ELASTICSEARCH_INFERENCE_ID not configured"
EnsureConfigError == "Elasticsearch is not configured (ELASTICSEARCH_URL)"
ClientConfigError == "Elasticsearch is not configured"
CountMismatchError == "Inference returned a wrong number of embeddings"
NetworkError == "fetch failed"
JsonError == "Unexpected token in JSON"
PollFailedError == "Snapshot poll failed"
PollTimeoutError == "Snapshot timed out"

-----------------------------------------------------------------------------
(* Pure functions of the code *)

RECURSIVE TrimStart(_)
TrimStart(s) == IF s # <<>> /\ Head(s) = " " THEN TrimStart(Tail(s)) ELSE s

RECURSIVE TrimEnd(_)
TrimEnd(s) == IF s # <<>> /\ s[Len(s)] = " " THEN TrimEnd(SubSeq(s, 1, Len(s) - 1)) ELSE s

\* Variant: no trimming at all (query used as typed).
TrimNone(s) == s

Trim(s) == TrimEnd(TrimStart(s))

\* Variant: every failure is taken for a cold start.
AnyFailureIsTimeout(msg) == TRUE

isDeploymentTimeout(msg) == msg \in ColdStartMessages

EffectiveLimit(optLimit) ==
    Min(IF optLimit = None THEN defaultLimit ELSE optLimit[1], MaxLimit)

\* Variant: no over-fetch, the limit itself is asked for.
FetchLimitNoOverfetch(limit) == Min(limit, MaxLimit)

FetchLimit(limit) == Min(limit * 2, MaxLimit)

NormCategory(optCategory) ==
    IF optCategory # None /\ Trim(optCategory[1]) # <<>>
    THEN Some(Trim(optCategory[1]))
    ELSE None

\* Variant: no truncation.
SliceNone(s, end) == s

\* Array.prototype.slice(0, end)
Slice0(s, end) ==
    LET e == IF end < 0 THEN Max(Len(s) + end, 0) ELSE Min(end, Len(s))
    IN  SubSeq(s, 1, e)

\* Array.prototype.filter: the elements at the indices in I, in order
RECURSIVE KeepFrom(_, _, _)
KeepFrom(s, I, k) ==
    IF k > Len(s) THEN <<>>
    ELSE (IF k \in I THEN <<s[k]>> ELSE <<>>) \o KeepFrom(s, I, k + 1)

\* Variant: the kept elements collected in reverse (unshift for push).
RECURSIVE KeepRevFrom(_, _, _)
KeepRevFrom(s, I, k) ==
    IF k > Len(s) THEN <<>>
    ELSE KeepRevFrom(s, I, k + 1) \o (IF k \in I THEN <<s[k]>> ELSE <<>>)

KeepReversed(s, I) == KeepRevFrom(s, I, 1)

Keep(s, I) == KeepFrom(s, I, 1)

\* rationals
Rat(n, d) == [den |-> d, num |-> n]
RatGE(a, b) == a.num * b.den >= b.num * a.den
RatGT0(a) == a.num > 0
RatTimes04(a) == Rat(a.num * 4, a.den * 10)

-----------------------------------------------------------------------------
(* Embedding backend: response envelopes and their parsing (doRequest) *)

\* A response body, by what doRequest reads of it.  text_embedding and
\* inference_results: number of elements and how many of them carry a
\* number[]; embeddings: number of elements and how many are arrays;
\* single: whether the top-level inferred_value / embedding is a number[].
Lens(expected) == {n \in {0, expected - 1, expected, expected + 1} : n >= 0}
Shapes(expected) ==
    {None} \cup UNION {{Some([len |-> l, valid |-> v]) : v \in {w \in {l - 1, l} : w >= 0}} :
                          l \in Lens(expected)}
Responses(expected) ==
    [embeddings : Shapes(expected), inference_results : Shapes(expected), single : BOOLEAN, text_embedding : Shapes(expected)]

\* Variant: the text_embedding array is taken without comparing its length
\* with the number of inputs.
ParseUnchecked(res, expectedCount) ==
    IF res.text_embedding # None
    THEN Some(res.text_embedding[1].valid)
    ELSE None

\* The number of vectors doRequest returns, None when it throws the
\* shape-mismatch error.
ParseResponse(res, expectedCount) ==
    IF /\ res.text_embedding # None
       /\ res.text_embedding[1].len = expectedCount
       /\ res.text_embedding[1].valid = expectedCount
    THEN Some(res.text_embedding[1].valid)
    ELSE IF /\ res.embeddings # None
            /\ res.embeddings[1].len = expectedCount
            /\ res.embeddings[1].valid = res.embeddings[1].len
    THEN Some(res.embeddings[1].len)
    ELSE IF /\ res.inference_results # None
            /\ res.inference_results[1].len = expectedCount
            /\ res.inference_results[1].valid = expectedCount
    THEN Some(res.inference_results[1].valid)
    ELSE IF expectedCount = 1 /\ res.single
    THEN Some(1)
    ELSE None

\* Variant: the embeddings array is looked at before text_embedding.
ParseShapeFallbackFirst(res, expectedCount) ==
    IF /\ res.embeddings # None
       /\ res.embeddings[1].len = expectedCount
       /\ res.embeddings[1].valid = res.embeddings[1].len
    THEN "embeddings"
    ELSE IF /\ res.text_embedding # None
            /\ res.text_embedding[1].len = expectedCount
            /\ res.text_embedding[1].valid = expectedCount
    THEN "text_embedding"
    ELSE IF /\ res.inference_results # None
            /\ res.inference_results[1].len = expectedCount
            /\ res.inference_results[1].valid = expectedCount
    THEN "inference_results"
    ELSE IF expectedCount = 1 /\ res.single
    THEN "single"
    ELSE "none"

\* The part of the body doRequest takes its vectors from: the first, in the
\* order of the code, that passes its test; "none" when it throws.
ParseShape(res, expectedCount) ==
    IF /\ res.text_embedding # None
       /\ res.text_embedding[1].len = expectedCount
       /\ res.text_embedding[1].valid = expectedCount
    THEN "text_embedding"
    ELSE IF /\ res.embeddings # None
            /\ res.embeddings[1].len = expectedCount
            /\ res.embeddings[1].valid = res.embeddings[1].len
    THEN "embeddings"
    ELSE IF /\ res.inference_results # None
            /\ res.inference_results[1].len = expectedCount
            /\ res.inference_results[1].valid = expectedCount
    THEN "inference_results"
    ELSE IF expectedCount = 1 /\ res.single
    THEN "single"
    ELSE "none"

Ok(v) == [kind |-> "ok", msg |-> "", val |-> v]
Err(m) == [kind |-> "err", msg |-> m, val |-> None]
NoRet == [kind |-> "none", msg |-> "", val |-> None]

\* Every outcome of one doRequest: the transport throws, or the body parses
\* to vectors, or the body has no matching shape.
DoRequestOutcomes(expectedCount) ==
    {Err(m) : m \in ColdStartMessages \cup OtherMessages}
    \cup {IF ParseResponse(res, expectedCount) = None
          THEN Err(ShapeError)
          ELSE Ok(ParseResponse(res, expectedCount)[1]) :
            res \in Responses(expectedCount)}

-----------------------------------------------------------------------------
(* Index search: hits and their normalisation (searchProducts) *)

\* raw scores the index may report: none below 0
RawScores == {0, 1, 2, 5}

\* h._score ?? 0
ScoreOr0(h) == IF h.score = None THEN 0 ELSE h.score[1]

HitRecs(ids) ==
    [hasSource : BOOLEAN, id : ids, score : {Some(x) : x \in RawScores}]

\* What the index may answer to a search of `size` hits with an optional
\* category term filter: distinct documents of the index that satisfy the
\* filter, at most `size` of them, by descending _score (the default sort).
ESHits(docs, size, category) ==
    LET ids == {i \in DOMAIN docs : category = None \/ docs[i] = category}
        n   == Min(size, Cardinality(ids))
    IN  UNION {
          {h \in [1..k -> HitRecs(ids)] :
              /\ \A i, j \in 1..k : i # j => h[i].id # h[j].id
              /\ \A i \in 1..(k - 1) : ScoreOr0(h[i]) >= ScoreOr0(h[i + 1])}
          : k \in 0..n}

RECURSIVE ReduceMax(_, _)
ReduceMax(hits, m) ==
    IF hits = <<>> THEN m ELSE ReduceMax(Tail(hits), Max(m, ScoreOr0(Head(hits))))

\* Variant: the raw score passed through, not divided by the maximum.
SimilarityRaw(rawScore, maxScore) == Rat(rawScore, 1)

Similarity(rawScore, maxScore) ==
    IF maxScore > 0 THEN Rat(rawScore, maxScore) ELSE Rat(0, 1)

\* hits.map(...).filter(Boolean)
NormalizeHits(hits, docs) ==
    LET maxScore == ReduceMax(hits, 0)
        product(hit) ==
            [category |-> docs[hit.id], id |-> hit.id, similarity |-> Similarity(ScoreOr0(hit), maxScore)]
        mapped == [k \in 1..Len(hits) |-> product(hits[k])]
    IN  Keep(mapped, {k \in 1..Len(hits) : hits[k].hasSource})

\* Variant: a strict comparison with the threshold.
CutoffStrict(results) ==
    IF Len(results) > 0 /\ RatGT0(results[1].similarity)
    THEN LET threshold == RatTimes04(results[1].similarity)
         IN  Keep(results, {k \in 1..Len(results) :
                               ~RatGE(threshold, results[k].similarity)})
    ELSE results

\* The relevance cutoff of runSemanticSearch
Cutoff(results) ==
    IF Len(results) > 0 /\ RatGT0(results[1].similarity)
    THEN LET threshold == RatTimes04(results[1].similarity)
         IN  Keep(results, {k \in 1..Len(results) :
                               RatGE(results[k].similarity, threshold)})
    ELSE results

\* the cutoff fraction, in tenths
CutoffTenths == 4

\* Variant: the comparison with the threshold is inverted.
CutoffAtInverted(results, tenths) ==
    IF Len(results) > 0 /\ RatGT0(results[1].similarity)
    THEN LET top == results[1].similarity
             threshold == Rat(top.num * tenths, top.den * 10)
         IN  Keep(results, {k \in 1..Len(results) :
                               RatGE(threshold, results[k].similarity)})
    ELSE results

\* The relevance cutoff with the fraction as a parameter:
\* threshold = topScore * (tenths / 10)
CutoffAt(results, tenths) ==
    IF Len(results) > 0 /\ RatGT0(results[1].similarity)
    THEN LET top == results[1].similarity
             threshold == Rat(top.num * tenths, top.den * 10)
         IN  Keep(results, {k \in 1..Len(results) :
                               RatGE(results[k].similarity, threshold)})
    ELSE results

-----------------------------------------------------------------------------
(* The call stack *)

Event(ev, arg, outcome) == [arg |-> arg, ev |-> ev, outcome |-> outcome]
CallEvent(fn) == Event("call", fn, NoRet)

Top == stack[Len(stack)]
Rest == SubSeq(stack, 1, Len(stack) - 1)
At(fn, pc) == stack # <<>> /\ Top.fn = fn /\ Top.pc = pc

\* return v / throw m from the innermost frame
Return(v) == stack' = Rest /\ ret' = Ok(v)
Throw(m) == stack' = Rest /\ ret' = Err(m)
\* an exception of the callee passes through the innermost frame
Propagate == stack' = Rest /\ ret' = ret
\* the innermost frame moves on
Goto(frame) == stack' = Rest \o <<frame>> /\ ret' = NoRet
\* the innermost frame awaits a call of callee
Await(frame, callee) ==
    /\ stack' = Rest \o <<frame, callee>>
    /\ ret' = NoRet
    /\ log' = Append(log, CallEvent(callee.fn))

\* one request to an external service and its outcome o; the failures other
\* than cold starts are bounded by faultBudget per top-level call
IsFault(o) == o.kind = "err" /\ ~isDeploymentTimeout(o.msg)

Exchange(ev, arg, o) ==
    /\ IsFault(o) => faults < faultBudget
    /\ log' = Append(log, Event(ev, arg, o))
    /\ faults' = faults + (IF IsFault(o) THEN 1 ELSE 0)

FrameRSS(q, l, c) ==
    [category |-> None, fn |-> "runSemanticSearch", limit |-> 0,
     optCategory |-> c, optLimit |-> l, pc |-> "start", query |-> q,
     syncThrew |-> FALSE, trimmed |-> <<>>]
FrameIE(text) == [fn |-> "inferEmbedding", pc |-> "start", text |-> text]
FrameCIA(input, inputType, expectedCount) ==
    [expectedCount |-> expectedCount, fn |-> "callInferenceApi",
     from |-> Len(log) + 2, input |-> input, inputType |-> inputType,
     pc |-> "start"]
FrameIES(n) ==
    [fn |-> "inferEmbeddings", i |-> 0, n |-> n, pc |-> "start", results |-> 0]
FrameEPI == [fn |-> "ensureProductsIndex", pc |-> "start"]
FrameGPC == [fn |-> "getProductsIndexCount", pc |-> "start"]
FrameSP(optLimit, category, queryText) ==
    [category |-> category, fn |-> "searchProducts", optLimit |-> optLimit,
     pc |-> "start", queryText |-> queryText]
FrameSYNC == [fn |-> "syncProductsFromSupabase", n |-> 0, pc |-> "start"]
FrameIP(docs) == [docs |-> docs, fn |-> "indexProducts", pc |-> "start"]

EmptyDocs == [i \in {} |-> None]
NoInfer == [result |-> NoRet, trace |-> <<>>]

\* elasticsearchClient is non-null (ELASTICSEARCH_URL set), and
\* getElasticsearchInferenceId() is non-null (ELASTICSEARCH_INFERENCE_ID set)
Configs == [client : BOOLEAN, inferenceId : BOOLEAN]
Configured == [client |-> TRUE, inferenceId |-> TRUE]

\* the concurrent invocation: not started, at a step, or ended with a result
NoPeer == [pc |-> "idle", result |-> NoRet]

\* the search page before it is mounted
NoPage ==
    [debounce |-> None, failed |-> FALSE, inflight |-> {}, issued |-> <<>>,
     loading |-> TRUE, nodes |-> None, query |-> ""]

Init ==
    /\ table \in Tables
    /\ esExists = FALSE
    /\ esDocs = EmptyDocs
    /\ stack = <<>>
    /\ ret = NoRet
    /\ log = <<>>
    /\ lastInfer = NoInfer
    /\ es0 = [docs |-> EmptyDocs, exists |-> FALSE]
    /\ faults = 0
    /\ faultBudget = MaxFaults
    /\ prevEnsured = FALSE
    /\ config = Configured
    /\ peer = NoPeer
    /\ page = NoPage

-----------------------------------------------------------------------------
(* Entry points: a request arrives when no call is running *)

Idle == stack = <<>> /\ ret.kind = "none"
Done == stack = <<>> /\ ret.kind # "none"

Begin(frame) ==
    /\ Idle
    /\ stack' = <<frame>>
    /\ log' = <<CallEvent(frame.fn)>>
    /\ es0' = [docs |-> esDocs, exists |-> esExists]
    /\ faults' = 0
    /\ prevEnsured' = (prevEnsured /\ frame.fn = "ensureProductsIndex")
    /\ UNCHANGED <<config, peer, page, faultBudget, table, esExists, esDocs, ret, lastInfer>>

\* The caller takes the result of the finished call; the next request may arrive.
Settle ==
    /\ Done
    /\ ret' = NoRet
    /\ log' = <<>>
    /\ lastInfer' = NoInfer
    /\ prevEnsured' = (log[1].arg = "ensureProductsIndex" /\ ret.kind = "ok")
    /\ UNCHANGED <<config, peer, page, faultBudget, table, esExists, esDocs, stack, es0, faults>>

CallRunSemanticSearch ==
    \E q \in Queries, l \in OptLimits, c \in OptCategories : Begin(FrameRSS(q, l, c))

CallSync == Begin(FrameSYNC)

CallEnsure == Begin(FrameEPI)

CallInferEmbedding == \E text \in Queries : Begin(FrameIE(text))

CallInferEmbeddings == \E n \in 0..MaxTexts : Begin(FrameIES(n))

-----------------------------------------------------------------------------
(* callInferenceApi, inferEmbedding, inferEmbeddings *)

\* Variant: the text is not truncated.
NormInputWhole(text) ==
    LET t == Trim(text)
    IN  IF t = <<>> THEN <<" ">> ELSE t

\* text.trim().slice(0, 8191) || " "
NormInput(text) ==
    LET t == Slice0(Trim(text), MaxTextLen)
    IN  IF t = <<>> THEN <<" ">> ELSE t

RequestBody(f) == [input |-> f.input, input_type |-> f.inputType]

\* the call that ends with this step, for the history
Completed(f) ==
    lastInfer' = [result |-> ret', trace |-> SubSeq(log', f.from, Len(log'))]

\* Variant: the request is sent whatever the configuration.
CIA_FirstUnchecked ==
    /\ At("callInferenceApi", "start")
    /\ \E o \in DoRequestOutcomes(Top.expectedCount) :
           /\ Exchange("POST_inference", RequestBody(Top), o)
           /\ IF o.kind = "ok"
              THEN Return(o.val) /\ Completed(Top)
              ELSE IF isDeploymentTimeout(o.msg)
              THEN Goto([Top EXCEPT !.pc = "wait"]) /\ UNCHANGED lastInfer
              ELSE Throw(o.msg) /\ Completed(Top)
    /\ UNCHANGED <<config, peer, page, faultBudget, table, esExists, esDocs, es0, prevEnsured>>

\* if (!client || !inferenceId) throw ...
\* try { return await doRequest() } catch (err) {
\*   if (isDeploymentTimeout(err)) { await <delay>; return doRequest() } throw err }
CIA_First ==
    /\ At("callInferenceApi", "start")
    /\ IF ~(config.client /\ config.inferenceId)
       THEN /\ Throw(InferenceConfigError)
            /\ UNCHANGED <<log, faults>>
            /\ Completed(Top)
       ELSE \E o \in DoRequestOutcomes(Top.expectedCount) :
               /\ Exchange("POST_inference", RequestBody(Top), o)
               /\ IF o.kind = "ok"
                  THEN Return(o.val) /\ Completed(Top)
                  ELSE IF isDeploymentTimeout(o.msg)
                  THEN Goto([Top EXCEPT !.pc = "wait"]) /\ UNCHANGED lastInfer
                  ELSE Throw(o.msg) /\ Completed(Top)
    /\ UNCHANGED <<config, peer, page, faultBudget, table, esExists, esDocs, es0, prevEnsured>>

\* Variant: the retry is sent at once, the delay is not awaited.
CIA_NoWait ==
    /\ At("callInferenceApi", "wait")
    /\ Goto([Top EXCEPT !.pc = "retry"])
    /\ UNCHANGED <<config, peer, page, faultBudget, table, esExists, esDocs, log, lastInfer, es0, faults, prevEnsured>>

\* await new Promise((r) => setTimeout(r, DEPLOYMENT_TIMEOUT_RETRY_DELAY_MS))
CIA_Wait ==
    /\ At("callInferenceApi", "wait")
    /\ log' = Append(log, Event("wait", DEPLOYMENT_TIMEOUT_RETRY_DELAY_MS, NoRet))
    /\ Goto([Top EXCEPT !.pc = "retry"])
    /\ UNCHANGED <<config, peer, page, faultBudget, table, esExists, esDocs, lastInfer, es0, faults, prevEnsured>>

\* return doRequest()
CIA_Retry ==
    /\ At("callInferenceApi", "retry")
    /\ \E o \in DoRequestOutcomes(Top.expectedCount) :
        /\ Exchange("POST_inference", RequestBody(Top), o)
        /\ IF o.kind = "ok" THEN Return(o.val) ELSE Throw(o.msg)
        /\ Completed(Top)
    /\ UNCHANGED <<config, peer, page, faultBudget, table, esExists, esDocs, es0, prevEnsured>>

IE_Start ==
    /\ At("inferEmbedding", "start")
    /\ Await([Top EXCEPT !.pc = "called"],
             FrameCIA([text |-> NormInput(Top.text)], "SEARCH", 1))
    /\ UNCHANGED <<config, peer, page, faultBudget, table, esExists, esDocs, lastInfer, es0, faults, prevEnsured>>

\* const v = vectors[0]; if (!v || !Array.isArray(v)) throw ...; return v
IE_Called ==
    /\ At("inferEmbedding", "called")
    /\ IF ret.kind = "err" THEN Propagate
       ELSE IF ret.val < 1 THEN Throw(NoVectorError)
       ELSE Return("vector")
    /\ UNCHANGED <<config, peer, page, faultBudget, table, esExists, esDocs, log, lastInfer, es0, faults, prevEnsured>>

IES_Start ==
    /\ At("inferEmbeddings", "start")
    /\ IF Top.n = 0 THEN Return(0) ELSE Goto([Top EXCEPT !.pc = "loop"])
    /\ UNCHANGED <<config, peer, page, faultBudget, table, esExists, esDocs, log, lastInfer, es0, faults, prevEnsured>>

\* for (let i = 0; i < texts.length; i += INFERENCE_BATCH_SIZE) {
\*   const batch = texts.slice(i, i + INFERENCE_BATCH_SIZE); ... callInferenceApi(input, "INGEST")
IES_Loop ==
    /\ At("inferEmbeddings", "loop")
    /\ IF Top.i < Top.n
       THEN LET count == Min(INFERENCE_BATCH_SIZE, Top.n - Top.i)
            IN  Await([Top EXCEPT !.pc = "batch"],
                      FrameCIA([count |-> count, from |-> Top.i], "INGEST", count))
       ELSE Return(Top.results) /\ UNCHANGED log
    /\ UNCHANGED <<config, peer, page, faultBudget, table, esExists, esDocs, lastInfer, es0, faults, prevEnsured>>

\* Variant: a chunk that failed is skipped and the loop goes on.
IES_BatchSkipFailed ==
    /\ At("inferEmbeddings", "batch")
    /\ IF ret.kind = "err"
       THEN Goto([Top EXCEPT !.pc = "loop", !.i = @ + INFERENCE_BATCH_SIZE])
       ELSE Goto([Top EXCEPT !.pc = "loop", !.results = @ + ret.val,
                             !.i = @ + INFERENCE_BATCH_SIZE])
    /\ UNCHANGED <<config, peer, page, faultBudget, table, esExists, esDocs, log, lastInfer, es0, faults, prevEnsured>>

\* results.push(...vectors)
IES_Batch ==
    /\ At("inferEmbeddings", "batch")
    /\ IF ret.kind = "err" THEN Propagate
       ELSE Goto([Top EXCEPT !.pc = "loop", !.results = @ + ret.val,
                             !.i = @ + INFERENCE_BATCH_SIZE])
    /\ UNCHANGED <<config, peer, page, faultBudget, table, esExists, esDocs, log, lastInfer, es0, faults, prevEnsured>>

-----------------------------------------------------------------------------
(* ensureProductsIndex, getProductsIndexCount *)

\* Variant: the index is created whatever indices.exists answered.
EPI_ExistsIgnored ==
    /\ At("ensureProductsIndex", "start")
    /\ \/ /\ Exchange("indices.exists", None, Err(TransportError))
          /\ Throw(TransportError)
       \/ /\ Exchange("indices.exists", None, Ok(esExists))
          /\ Goto([Top EXCEPT !.pc = "create"])
    /\ UNCHANGED <<config, peer, page, faultBudget, table, esExists, esDocs, lastInfer, es0, prevEnsured>>

\* if (!client) throw ...
\* const exists = await client.indices.exists(...); if (exists) return;
EPI_Exists ==
    /\ At("ensureProductsIndex", "start")
    /\ \/ /\ ~config.client
          /\ Throw(EnsureConfigError)
          /\ UNCHANGED <<log, faults>>
       \/ /\ config.client
          /\ Exchange("indices.exists", None, Err(TransportError))
          /\ Throw(TransportError)
       \/ /\ config.client
          /\ Exchange("indices.exists", None, Ok(esExists))
          /\ IF esExists THEN Return(None) ELSE Goto([Top EXCEPT !.pc = "create"])
    /\ UNCHANGED <<config, peer, page, faultBudget, table, esExists, esDocs, lastInfer, es0, prevEnsured>>

\* await client.indices.create(...): the index rejects a second creation
EPI_Create ==
    /\ At("ensureProductsIndex", "create")
    /\ \/ /\ Exchange("indices.create", None, Err(TransportError))
          /\ Throw(TransportError)
          /\ UNCHANGED esExists
       \/ IF esExists
          THEN /\ Exchange("indices.create", None, Err(AlreadyExistsError))
               /\ Throw(AlreadyExistsError)
               /\ UNCHANGED esExists
          ELSE /\ Exchange("indices.create", None, Ok(TRUE))
               /\ Return(None)
               /\ esExists' = TRUE
    /\ UNCHANGED <<config, peer, page, faultBudget, table, esDocs, lastInfer, es0, prevEnsured>>

\* try { exists = ...; if (!exists) return 0; ... } catch { return 0 }
GPC_Exists ==
    /\ At("getProductsIndexCount", "start")
    /\ \/ /\ ~config.client
          /\ Return(0)
          /\ UNCHANGED <<log, faults>>
       \/ /\ config.client
          /\ Exchange("indices.exists", None, Err(TransportError))
          /\ Return(0)
       \/ /\ config.client
          /\ Exchange("indices.exists", None, Ok(esExists))
          /\ IF esExists THEN Goto([Top EXCEPT !.pc = "count"]) ELSE Return(0)
    /\ UNCHANGED <<config, peer, page, faultBudget, table, esExists, esDocs, lastInfer, es0, prevEnsured>>

\* const res = await client.count(...); return res.count
GPC_Count ==
    /\ At("getProductsIndexCount", "count")
    /\ \/ /\ Exchange("count", None, Err(TransportError))
          /\ Return(0)
       \/ /\ Exchange("count", None, Ok(Cardinality(DOMAIN esDocs)))
          /\ Return(Cardinality(DOMAIN esDocs))
    /\ UNCHANGED <<config, peer, page, faultBudget, table, esExists, esDocs, lastInfer, es0, prevEnsured>>

-----------------------------------------------------------------------------
(* searchProducts, indexProducts *)

\* The pieces the query texts of the colour cases are made of, and the
\* texts: up to MaxPieces pieces, one after the other
QueryPieces ==
    {<<" ">>, <<"r", "e", "d">>, <<"R", "e", "d">>, <<"t", "a", "n">>,
     <<"r", "e">>, <<"d">>}

RECURSIVE Concats(_)
Concats(n) ==
    IF n = 0 THEN {<<>>}
    ELSE LET shorter == Concats(n - 1)
         IN  shorter \cup {t \o p : t \in shorter, p \in QueryPieces}

QueryTexts == Concats(MaxPieces)

COLOR_KEYWORDS ==
    {<<"r", "e", "d">>,
     <<"b", "l", "u", "e">>,
     <<"g", "r", "e", "e", "n">>,
     <<"b", "l", "a", "c", "k">>,
     <<"w", "h", "i", "t", "e">>,
     <<"y", "e", "l", "l", "o", "w">>,
     <<"o", "r", "a", "n", "g", "e">>,
     <<"p", "u", "r", "p", "l", "e">>,
     <<"p", "i", "n", "k">>,
     <<"b", "r", "o", "w", "n">>,
     <<"g", "r", "e", "y">>,
     <<"g", "r", "a", "y">>,
     <<"n", "a", "v", "y">>,
     <<"b", "e", "i", "g", "e">>,
     <<"c", "r", "e", "a", "m">>,
     <<"t", "a", "n">>,
     <<"b", "u", "r", "g", "u", "n", "d", "y">>,
     <<"m", "a", "r", "o", "o", "n">>,
     <<"o", "l", "i", "v", "e">>,
     <<"t", "e", "a", "l">>,
     <<"c", "o", "r", "a", "l">>,
     <<"g", "o", "l", "d">>,
     <<"s", "i", "l", "v", "e", "r">>,
     <<"c", "h", "a", "r", "c", "o", "a", "l">>,
     <<"i", "v", "o", "r", "y">>,
     <<"k", "h", "a", "k", "i">>,
     <<"l", "a", "v", "e", "n", "d", "e", "r">>,
     <<"m", "i", "n", "t">>,
     <<"n", "u", "d", "e">>,
     <<"r", "u", "s", "t">>,
     <<"s", "a", "g", "e">>,
     <<"s", "a", "l", "m", "o", "n">>,
     <<"t", "u", "r", "q", "u", "o", "i", "s", "e">>,
     <<"w", "i", "n", "e">>,
     <<"i", "n", "d", "i", "g", "o">>,
     <<"c", "y", "a", "n">>,
     <<"m", "a", "g", "e", "n", "t", "a">>,
     <<"m", "a", "u", "v", "e">>,
     <<"p", "e", "a", "c", "h">>,
     <<"p", "l", "u", "m">>,
     <<"t", "a", "u", "p", "e">>,
     <<"c", "a", "m", "e", "l">>,
     <<"c", "o", "b", "a", "l", "t">>,
     <<"e", "m", "e", "r", "a", "l", "d">>,
     <<"f", "o", "r", "e", "s", "t">>,
     <<"h", "u", "n", "t", "e", "r">>,
     <<"l", "i", "l", "a", "c">>,
     <<"m", "o", "s", "s">>,
     <<"m", "u", "s", "t", "a", "r", "d">>,
     <<"o", "a", "t", "m", "e", "a", "l">>,
     <<"r", "o", "s", "e">>,
     <<"s", "l", "a", "t", "e">>,
     <<"s", "t", "o", "n", "e">>,
     <<"t", "e", "r", "r", "a", "c", "o", "t", "t", "a">>}

UpperCase ==
    <<"A", "B", "C", "D", "E", "F", "G", "H", "I", "J", "K", "L", "M", "N", "O", "P", "Q", "R", "S", "T", "U", "V", "W", "X", "Y", "Z">>
LowerCase ==
    <<"a", "b", "c", "d", "e", "f", "g", "h", "i", "j", "k", "l", "m", "n", "o", "p", "q", "r", "s", "t", "u", "v", "w", "x", "y", "z">>

\* String.prototype.toLowerCase
toLowerCase(text) ==
    [i \in 1..Len(text) |->
        IF \E j \in 1..Len(UpperCase) : UpperCase[j] = text[i]
        THEN LowerCase[CHOOSE j \in 1..Len(UpperCase) : UpperCase[j] = text[i]]
        ELSE text[i]]

\* String.prototype.split(/\s+/): the pieces between runs of whitespace; a
\* text that starts or ends with whitespace gives an empty first or last piece
RECURSIVE SplitFrom(_, _)
SplitFrom(text, word) ==
    IF text = <<>> THEN <<word>>
    ELSE IF Head(text) = " " THEN <<word>> \o SplitFrom(TrimStart(Tail(text)), <<>>)
    ELSE SplitFrom(Tail(text), Append(word, Head(text)))

SplitWhitespace(text) == SplitFrom(text, <<>>)

\* Variant: the words are looked up as typed, not lower-cased.
extractColorsAsTyped(text) ==
    LET words == SplitWhitespace(text)
    IN  Keep(words, {k \in 1..Len(words) : words[k] \in COLOR_KEYWORDS})

\* text.toLowerCase().split(/\s+/).filter((w) => COLOR_KEYWORDS.has(w))
extractColors(text) ==
    LET words == SplitWhitespace(toLowerCase(text))
    IN  Keep(words, {k \in 1..Len(words) : words[k] \in COLOR_KEYWORDS})

\* The clauses of the search query
KnnClause == [boost |-> 0, clause |-> "knn", field |-> "embedding", value |-> <<>>]
TermClause(category) ==
    [boost |-> 0, clause |-> "term", field |-> "category", value |-> category]
MatchClause(field, color, boost) ==
    [boost |-> boost, clause |-> "match", field |-> field, value |-> color]

\* colors.flatMap((color) => [{ match: { name: ... boost: 15 } },
\*                            { match: { description: ... boost: 10 } }])
ColorBoosts(colors) ==
    [j \in 1..(2 * Len(colors)) |->
        IF j % 2 = 1
        THEN MatchClause("name", colors[(j + 1) \div 2], NameBoost)
        ELSE MatchClause("description", colors[j \div 2], DescriptionBoost)]

\* Variant: the colour clauses are required, next to the k-NN clause.
BuildQueryBoostsRequired(category, queryText) ==
    LET colors == IF queryText # <<>> THEN extractColors(queryText) ELSE <<>>
        term   == IF NormCategory(category) # None
                  THEN <<TermClause(NormCategory(category)[1])>> ELSE <<>>
    IN  [bool |-> TRUE, must |-> <<KnnClause>> \o term \o ColorBoosts(colors),
         should |-> <<>>]

\* The query of the search request: a bool query with its must and should
\* clauses, or (bool = FALSE) the k-NN clause itself, held in must.
\* options.category?.trim() and options.queryText are read as the code
\* reads them: a blank category and an empty text count as absent.
BuildQuery(category, queryText) ==
    LET colors      == IF queryText # <<>> THEN extractColors(queryText) ELSE <<>>
        colorBoosts == ColorBoosts(colors)
        trimmed     == NormCategory(category)
    IN  IF trimmed # None /\ Len(colorBoosts) > 0
        THEN [bool |-> TRUE, must |-> <<KnnClause, TermClause(trimmed[1])>>,
              should |-> colorBoosts]
        ELSE IF trimmed # None
        THEN [bool |-> TRUE, must |-> <<KnnClause, TermClause(trimmed[1])>>,
              should |-> <<>>]
        ELSE IF Len(colorBoosts) > 0
        THEN [bool |-> TRUE, must |-> <<KnnClause>>, should |-> colorBoosts]
        ELSE [bool |-> FALSE, must |-> <<KnnClause>>, should |-> <<>>]

\* the category that the required clauses of a query filter on, if any
TermFilter(query) ==
    LET terms == {i \in 1..Len(query.must) : query.must[i].clause = "term"}
    IN  IF terms = {} THEN None ELSE Some(query.must[CHOOSE i \in terms : TRUE].value)

\* Variant: the request carries no category filter.
SearchRequestNoCategory(f) ==
    LET limit == EffectiveLimit(f.optLimit)
        query == BuildQuery(None, f.queryText)
    IN  [category |-> TermFilter(query), k |-> limit,
         num_candidates |-> Max(limit * 2, 100), query |-> query, size |-> limit]

\* The index answers a search with a negative size with an error, and may
\* answer one with k = 0 with an error; neither is a failure of the service.
SearchRequest(f) ==
    LET limit == EffectiveLimit(f.optLimit)
        query == BuildQuery(f.category, f.queryText)
    IN  [category |-> TermFilter(query), k |-> limit,
         num_candidates |-> Max(limit * 2, 100), query |-> query, size |-> limit]

SP_Search ==
    /\ At("searchProducts", "start")
    /\ LET req == SearchRequest(Top)
       IN  \/ /\ ~config.client
              /\ Throw(ClientConfigError)
              /\ UNCHANGED <<log, faults>>
           \/ /\ config.client
              /\ Exchange("search", req, Err(TransportError))
              /\ Throw(TransportError)
           \/ /\ config.client
              /\ req.size < 0 \/ req.k < 1
              /\ log' = Append(log, Event("search", req, Err(IllegalArgumentError)))
              /\ Throw(IllegalArgumentError)
              /\ UNCHANGED faults
           \/ /\ config.client
              /\ esExists
              /\ \E hits \in ESHits(esDocs, req.size, req.category) :
                  /\ Exchange("search", req, Ok(hits))
                  /\ Return(NormalizeHits(hits, esDocs))
    /\ UNCHANGED <<config, peer, page, faultBudget, table, esExists, esDocs, lastInfer, es0, prevEnsured>>

\* if (!client) throw ...; if (docs.length === 0) return { indexed: 0, errors: [] }
\* client.bulk({ refresh: true, operations }): every document is accepted
\* (upsert by _id) or rejected, with an error that carries a reason or (silent)
\* one that carries none; errors collects the reasons
IP_Bulk ==
    /\ At("indexProducts", "start")
    /\ LET docs == Top.docs
       IN  IF ~config.client
           THEN /\ Throw(ClientConfigError)
                /\ UNCHANGED <<log, faults, esExists, esDocs>>
           ELSE IF DOMAIN docs = {}
           THEN /\ Return([errors |-> 0, indexed |-> 0])
                /\ UNCHANGED <<log, faults, esExists, esDocs>>
           ELSE \/ /\ Exchange("bulk", DOMAIN docs, Err(TransportError))
                   /\ Throw(TransportError)
                   /\ UNCHANGED <<esExists, esDocs>>
                \/ \E rejected \in SUBSET DOMAIN docs : \E silent \in SUBSET rejected :
                    LET accepted == DOMAIN docs \ rejected
                        errors == Cardinality(rejected \ silent)
                    IN  /\ rejected # {} => faults < faultBudget
                        /\ log' = Append(log, Event("bulk", DOMAIN docs,
                                                    Ok([rejected |-> rejected, silent |-> silent])))
                        /\ faults' = faults + (IF rejected # {} THEN 1 ELSE 0)
                        /\ esExists' = TRUE
                        /\ esDocs' = [i \in DOMAIN esDocs \cup accepted |->
                                        IF i \in accepted THEN docs[i] ELSE esDocs[i]]
                        /\ Return([errors |-> errors,
                                   indexed |-> Cardinality(DOMAIN docs) - errors])
    /\ UNCHANGED <<config, peer, page, faultBudget, table, lastInfer, es0, prevEnsured>>

-----------------------------------------------------------------------------
(* syncProductsFromSupabase *)

SYNC_Fetch ==
    /\ At("syncProductsFromSupabase", "start")
    /\ \/ /\ Exchange("select", None, Err(SupabaseError))
          /\ Throw(SupabaseError)
       \/ LET selected == Event("select", None, Ok(Len(table)))
              f == [Top EXCEPT !.n = Len(table)]
          IN  /\ ret' = NoRet
              /\ UNCHANGED faults
              /\ IF Len(table) = 0
                 THEN /\ stack' = Rest \o <<[f EXCEPT !.pc = "ensuredEmpty"], FrameEPI>>
                      /\ log' = log \o <<selected, CallEvent("ensureProductsIndex")>>
                 ELSE /\ stack' = Rest \o <<[f EXCEPT !.pc = "embedded"],
                                            [FrameIES(Len(table)) EXCEPT !.pc = "start"]>>
                      /\ log' = log \o <<selected, CallEvent("inferEmbeddings")>>
    /\ UNCHANGED <<config, peer, page, faultBudget, table, esExists, esDocs, lastInfer, es0, prevEnsured>>

SYNC_EnsuredEmpty ==
    /\ At("syncProductsFromSupabase", "ensuredEmpty")
    /\ IF ret.kind = "err" THEN Propagate
       ELSE Return([errors |-> 0, indexed |-> 0, skipped |-> 0, total |-> 0])
    /\ UNCHANGED <<config, peer, page, faultBudget, table, esExists, esDocs, log, lastInfer, es0, faults, prevEnsured>>

\* Variant: the result of the embedding step is not looked at.
SYNC_EmbeddedUnchecked ==
    /\ At("syncProductsFromSupabase", "embedded")
    /\ Await([Top EXCEPT !.pc = "ensured"], FrameEPI)
    /\ UNCHANGED <<config, peer, page, faultBudget, table, esExists, esDocs, lastInfer, es0, faults, prevEnsured>>

\* if (embeddings.length !== list.length) throw ...; docs = ...; await ensureProductsIndex()
SYNC_Embedded ==
    /\ At("syncProductsFromSupabase", "embedded")
    /\ IF ret.kind = "err" THEN Propagate /\ UNCHANGED log
       ELSE IF ret.val # Top.n THEN Throw(CountMismatchError) /\ UNCHANGED log
       ELSE Await([Top EXCEPT !.pc = "ensured"], FrameEPI)
    /\ UNCHANGED <<config, peer, page, faultBudget, table, esExists, esDocs, lastInfer, es0, faults, prevEnsured>>

\* Variant: every document gets the same id.
DocsOneKey(rows) == [i \in {k \in {1} : k <= Len(rows)} |-> rows[Len(rows)]]

\* the documents built from the rows: id -> category
DocsOf(rows) == [i \in 1..Len(rows) |-> rows[i]]

\* Variant: the bulk upsert follows whatever ensureProductsIndex did.
SYNC_EnsuredAnyway ==
    /\ At("syncProductsFromSupabase", "ensured")
    /\ Await([Top EXCEPT !.pc = "indexed"], FrameIP(DocsOf(table)))
    /\ UNCHANGED <<config, peer, page, faultBudget, table, esExists, esDocs, lastInfer, es0, faults, prevEnsured>>

SYNC_Ensured ==
    /\ At("syncProductsFromSupabase", "ensured")
    /\ IF ret.kind = "err" THEN Propagate /\ UNCHANGED log
       ELSE Await([Top EXCEPT !.pc = "indexed"], FrameIP(DocsOf(table)))
    /\ UNCHANGED <<config, peer, page, faultBudget, table, esExists, esDocs, lastInfer, es0, faults, prevEnsured>>

\* Variant: a rejected document fails the sync.
SYNC_IndexedStrict ==
    /\ At("syncProductsFromSupabase", "indexed")
    /\ IF ret.kind = "err" THEN Propagate
       ELSE IF ret.val.errors > 0 THEN Throw(TransportError)
       ELSE Return([errors |-> ret.val.errors, indexed |-> ret.val.indexed,
                    skipped |-> Top.n - Len(DocsOf(table)), total |-> Top.n])
    /\ UNCHANGED <<config, peer, page, faultBudget, table, esExists, esDocs, log, lastInfer, es0, faults, prevEnsured>>

SYNC_Indexed ==
    /\ At("syncProductsFromSupabase", "indexed")
    /\ IF ret.kind = "err" THEN Propagate
       ELSE Return([errors |-> ret.val.errors, indexed |-> ret.val.indexed,
                    skipped |-> Top.n - Len(DocsOf(table)), total |-> Top.n])
    /\ UNCHANGED <<config, peer, page, faultBudget, table, esExists, esDocs, log, lastInfer, es0, faults, prevEnsured>>

-----------------------------------------------------------------------------
(* runSemanticSearch *)

\* const trimmed = query.trim(); if (!trimmed) return []; ... await inferEmbedding(trimmed)
RSS_Start ==
    /\ At("runSemanticSearch", "start")
    /\ LET trimmed == Trim(Top.query)
       IN  IF trimmed = <<>>
           THEN Return(<<>>) /\ UNCHANGED log
           ELSE Await([Top EXCEPT !.pc = "embedded", !.trimmed = trimmed,
                                  !.limit = EffectiveLimit(Top.optLimit),
                                  !.category = NormCategory(Top.optCategory),
                                  !.query = <<>>, !.optCategory = None],
                      FrameIE(trimmed))
    /\ UNCHANGED <<config, peer, page, faultBudget, table, esExists, esDocs, lastInfer, es0, faults, prevEnsured>>

RSS_Embedded ==
    /\ At("runSemanticSearch", "embedded")
    /\ IF ret.kind = "err" THEN Propagate /\ UNCHANGED log
       ELSE Await([Top EXCEPT !.pc = "ensured"], FrameEPI)
    /\ UNCHANGED <<config, peer, page, faultBudget, table, esExists, esDocs, lastInfer, es0, faults, prevEnsured>>

RSS_Ensured ==
    /\ At("runSemanticSearch", "ensured")
    /\ IF ret.kind = "err" THEN Propagate /\ UNCHANGED log
       ELSE Await([Top EXCEPT !.pc = "counted"], FrameGPC)
    /\ UNCHANGED <<config, peer, page, faultBudget, table, esExists, esDocs, lastInfer, es0, faults, prevEnsured>>

\* Variant: the sync runs before every search, whatever the count.
RSS_CountedAlwaysSync ==
    /\ At("runSemanticSearch", "counted")
    /\ Await([Top EXCEPT !.pc = "synced"], FrameSYNC)
    /\ UNCHANGED <<config, peer, page, faultBudget, table, esExists, esDocs, lastInfer, es0, faults, prevEnsured>>

\* if (count === 0) { try { await syncProductsFromSupabase() } catch {} }
\* results = await searchProducts(embedding, { limit: fetchLimit, category, ... })
RSS_Counted ==
    /\ At("runSemanticSearch", "counted")
    /\ IF ret.val = 0
       THEN Await([Top EXCEPT !.pc = "synced"], FrameSYNC)
       ELSE Await([Top EXCEPT !.pc = "searched"],
                  FrameSP(Some(FetchLimit(Top.limit)), Top.category, Top.trimmed))
    /\ UNCHANGED <<config, peer, page, faultBudget, table, esExists, esDocs, lastInfer, es0, faults, prevEnsured>>

\* Variant: no try/catch around the sync, its error ends the search.
RSS_SyncedUncaught ==
    /\ At("runSemanticSearch", "synced")
    /\ IF ret.kind = "err" THEN Propagate /\ UNCHANGED log
       ELSE Await([Top EXCEPT !.pc = "searched"],
                  FrameSP(Some(FetchLimit(Top.limit)), Top.category, Top.trimmed))
    /\ UNCHANGED <<config, peer, page, faultBudget, table, esExists, esDocs, lastInfer, es0, faults, prevEnsured>>

RSS_Synced ==
    /\ At("runSemanticSearch", "synced")
    /\ Await([Top EXCEPT !.pc = "searched", !.syncThrew = (ret.kind = "err")],
             FrameSP(Some(FetchLimit(Top.limit)), Top.category, Top.trimmed))
    /\ UNCHANGED <<config, peer, page, faultBudget, table, esExists, esDocs, lastInfer, es0, faults, prevEnsured>>

\* relevance cutoff, then results.slice(0, limit)
RSS_Searched ==
    /\ At("runSemanticSearch", "searched")
    /\ IF ret.kind = "err" THEN Propagate
       ELSE Return(Slice0(Cutoff(ret.val), Top.limit))
    /\ UNCHANGED <<config, peer, page, faultBudget, table, esExists, esDocs, log, lastInfer, es0, faults, prevEnsured>>

-----------------------------------------------------------------------------
(* The search service: searches, syncs and index set-up, one call at a time *)

Next ==
    \/ Settle
    \/ CallRunSemanticSearch
    \/ CallSync
    \/ CallEnsure
    \/ CIA_First
    \/ CIA_Wait
    \/ CIA_Retry
    \/ IE_Start
    \/ IE_Called
    \/ IES_Start
    \/ IES_Loop
    \/ IES_Batch
    \/ EPI_Exists
    \/ EPI_Create
    \/ GPC_Exists
    \/ GPC_Count
    \/ SP_Search
    \/ IP_Bulk
    \/ SYNC_Fetch
    \/ SYNC_EnsuredEmpty
    \/ SYNC_Embedded
    \/ SYNC_Ensured
    \/ SYNC_Indexed
    \/ RSS_Start
    \/ RSS_Embedded
    \/ RSS_Ensured
    \/ RSS_Counted
    \/ RSS_Synced
    \/ RSS_Searched

Spec == Init /\ [][Next]_vars

(* The embedding provider alone: inferEmbedding and inferEmbeddings called
   with texts of any number *)

InitEmbed == Init /\ table = <<>>

NextEmbed ==
    \/ Settle
    \/ CallInferEmbedding
    \/ CallInferEmbeddings
    \/ CIA_First
    \/ CIA_Wait
    \/ CIA_Retry
    \/ IE_Start
    \/ IE_Called
    \/ IES_Start
    \/ IES_Loop
    \/ IES_Batch

SpecEmbed == InitEmbed /\ [][NextEmbed]_vars

(* The ranking pipeline over a populated index and healthy services (no
   request fails, cold starts apart): searches only *)

RankTable == [i \in 1..MaxRankRows |-> IF i % 2 = 1 THEN Some(<<"s">>) ELSE None]

InitRank ==
    /\ table = RankTable
    /\ esExists = TRUE
    /\ esDocs = DocsOf(RankTable)
    /\ stack = <<>>
    /\ ret = NoRet
    /\ log = <<>>
    /\ lastInfer = NoInfer
    /\ es0 = [docs |-> DocsOf(RankTable), exists |-> TRUE]
    /\ faults = 0
    /\ faultBudget = 0
    /\ prevEnsured = FALSE
    /\ config = Configured
    /\ peer = NoPeer
    /\ page = NoPage

NextRank ==
    \/ Settle
    \/ CallRunSemanticSearch
    \/ CIA_First
    \/ CIA_Wait
    \/ CIA_Retry
    \/ IE_Start
    \/ IE_Called
    \/ EPI_Exists
    \/ GPC_Exists
    \/ GPC_Count
    \/ SP_Search
    \/ RSS_Start
    \/ RSS_Embedded
    \/ RSS_Ensured
    \/ RSS_Counted
    \/ RSS_Searched

SpecRank == InitRank /\ [][NextRank]_vars

(* Searches over the populated index, whatever the configuration of the
   process (elasticsearchClient and ELASTICSEARCH_INFERENCE_ID set or not) *)

InitConfig ==
    /\ table = RankTable
    /\ esExists = TRUE
    /\ esDocs = DocsOf(RankTable)
    /\ stack = <<>>
    /\ ret = NoRet
    /\ log = <<>>
    /\ lastInfer = NoInfer
    /\ es0 = [docs |-> DocsOf(RankTable), exists |-> TRUE]
    /\ faults = 0
    /\ faultBudget = 0
    /\ prevEnsured = FALSE
    /\ config \in Configs
    /\ peer = NoPeer
    /\ page = NoPage

SpecConfig == InitConfig /\ [][NextRank]_vars

(* Searches whose query text holds colour words or not, with and without
   a category, over an index of one document and healthy services:
   searchProducts called on its own and through runSemanticSearch *)

OneRowTable == <<Some(<<"s">>)>>

CallSearchProducts ==
    /\ Idle
    /\ \E l \in {None, Some(1)}, c \in OptCategories, q \in QueryTexts :
          Begin(FrameSP(l, c, q))

CallSearchText ==
    /\ Idle
    /\ \E c \in OptCategories, q \in QueryTexts : Begin(FrameRSS(q, None, c))

InitQuery ==
    /\ table = OneRowTable
    /\ esExists = TRUE
    /\ esDocs = DocsOf(OneRowTable)
    /\ stack = <<>>
    /\ ret = NoRet
    /\ log = <<>>
    /\ lastInfer = NoInfer
    /\ es0 = [docs |-> DocsOf(OneRowTable), exists |-> TRUE]
    /\ faults = 0
    /\ faultBudget = 0
    /\ prevEnsured = FALSE
    /\ config = Configured
    /\ peer = NoPeer
    /\ page = NoPage

NextQuery ==
    \/ Settle
    \/ CallSearchProducts
    \/ CallSearchText
    \/ CIA_First
    \/ CIA_Wait
    \/ CIA_Retry
    \/ IE_Start
    \/ IE_Called
    \/ EPI_Exists
    \/ GPC_Exists
    \/ GPC_Count
    \/ SP_Search
    \/ RSS_Start
    \/ RSS_Embedded
    \/ RSS_Ensured
    \/ RSS_Counted
    \/ RSS_Searched

SpecQuery == InitQuery /\ [][NextQuery]_vars

(* doRequest on its own: the body of one response, for inputs of 1 to
   MaxExpected texts, parsed *)

FrameDR(res, expectedCount) ==
    [expectedCount |-> expectedCount, fn |-> "doRequest", pc |-> "response",
     res |-> res]

\* const obj = res ...; the shapes in turn; return vectors or throw
DR_Parse ==
    /\ At("doRequest", "response")
    /\ LET shape == ParseShape(Top.res, Top.expectedCount)
           count == ParseResponse(Top.res, Top.expectedCount)
       IN  IF count = None
           THEN Throw(ShapeError)
           ELSE Return([shape |-> shape, vectors |-> count[1]])
    /\ log' = <<Event("response", Top.expectedCount, Ok(Top.res))>>
    /\ UNCHANGED <<config, peer, page, faultBudget, table, esExists, esDocs, lastInfer, es0, faults, prevEnsured>>

InitParse ==
    /\ table = <<>>
    /\ esExists = FALSE
    /\ esDocs = EmptyDocs
    /\ stack \in UNION {{<<FrameDR(res, n)>> : res \in Responses(n)} : n \in 1..MaxExpected}
    /\ ret = NoRet
    /\ log = <<>>
    /\ lastInfer = NoInfer
    /\ es0 = [docs |-> EmptyDocs, exists |-> FALSE]
    /\ faults = 0
    /\ faultBudget = 0
    /\ prevEnsured = FALSE
    /\ config = Configured
    /\ peer = NoPeer
    /\ page = NoPage

NextParse == DR_Parse

SpecParse == InitParse /\ [][NextParse]_vars

(* The texts the provider sends: inferEmbedding and inferEmbeddings called
   with texts that are empty, blank, short, as long as the limit and longer,
   with and without spaces around them; healthy backend *)

\* a spaces, n letters, b spaces
Padded(a, n, b) ==
    [i \in 1..(a + n + b) |-> IF i <= a \/ i > a + n THEN " " ELSE "a"]

InputTexts ==
    {Padded(a, n, b) : a \in 0..MaxPad, b \in 0..MaxPad,
                       n \in {0, 1, MaxTextLen, MaxTextLen + 1}}

FrameIESTexts(texts) ==
    [fn |-> "inferEmbeddings", i |-> 0, n |-> Len(texts), pc |-> "start",
     results |-> 0, texts |-> texts]

CallInferEmbeddingText ==
    /\ Idle
    /\ \E text \in InputTexts : Begin(FrameIE(text))

CallInferEmbeddingsTexts ==
    /\ Idle
    /\ \E text \in InputTexts :
          \E texts \in {<<text>>, <<text, <<" ">>>>} : Begin(FrameIESTexts(texts))

\* const batch = texts.slice(i, i + INFERENCE_BATCH_SIZE);
\* const input = batch.map((t) => t.trim().slice(0, 8191) || " ");
\* const vectors = await callInferenceApi(input, "INGEST");
IES_LoopTexts ==
    /\ At("inferEmbeddings", "loop")
    /\ IF Top.i < Top.n
       THEN LET batch == SubSeq(Top.texts, Top.i + 1,
                                Min(Top.i + INFERENCE_BATCH_SIZE, Top.n))
                input == [k \in 1..Len(batch) |-> NormInput(batch[k])]
            IN  Await([Top EXCEPT !.pc = "batch"],
                      FrameCIA([texts |-> input], "INGEST", Len(input)))
       ELSE Return(Top.results) /\ UNCHANGED log
    /\ UNCHANGED <<config, peer, page, faultBudget, table, esExists, esDocs, lastInfer, es0, faults, prevEnsured>>

InitInput ==
    /\ table = <<>>
    /\ esExists = FALSE
    /\ esDocs = EmptyDocs
    /\ stack = <<>>
    /\ ret = NoRet
    /\ log = <<>>
    /\ lastInfer = NoInfer
    /\ es0 = [docs |-> EmptyDocs, exists |-> FALSE]
    /\ faults = 0
    /\ faultBudget = 0
    /\ prevEnsured = FALSE
    /\ config = Configured
    /\ peer = NoPeer
    /\ page = NoPage

NextInput ==
    \/ Settle
    \/ CallInferEmbeddingText
    \/ CallInferEmbeddingsTexts
    \/ CIA_First
    \/ CIA_Wait
    \/ CIA_Retry
    \/ IE_Start
    \/ IE_Called
    \/ IES_Start
    \/ IES_LoopTexts
    \/ IES_Batch

SpecInput == InitInput /\ [][NextInput]_vars

-----------------------------------------------------------------------------
(* The scraper script: waitForSnapshot polls Bright Data until the snapshot
   is ready *)

\* HTTP statuses the snapshot endpoint may answer with; Response.ok
HttpStatuses == {200, 202, 204, 404, 500}
ResponseOk(status) == status >= 200 /\ status <= 299

FrameWFS == [attempt |-> 0, fn |-> "waitForSnapshot", pc |-> "poll"]

CallWaitForSnapshot == Begin(FrameWFS)

\* Variant: the loop runs while attempt <= MAX_POLL_ATTEMPTS.
WFS_PollOneMore ==
    /\ At("waitForSnapshot", "poll")
    /\ IF Top.attempt <= MAX_POLL_ATTEMPTS
       THEN \/ /\ log' = Append(log, Event("GET_snapshot", Top.attempt, Err(NetworkError)))
               /\ Throw(NetworkError)
            \/ \E status \in HttpStatuses :
                  /\ log' = Append(log, Event("GET_snapshot", Top.attempt, Ok(status)))
                  /\ IF status = 202
                     THEN \/ Goto([Top EXCEPT !.pc = "sleep"])
                          \/ Throw(JsonError)
                     ELSE IF ResponseOk(status) THEN Return(None)
                     ELSE Throw(PollFailedError)
       ELSE Throw(PollTimeoutError) /\ UNCHANGED log
    /\ UNCHANGED <<config, peer, page, faultBudget, table, esExists, esDocs, lastInfer, es0, faults, prevEnsured>>

\* for (...; attempt < MAX_POLL_ATTEMPTS; ...) { const res = await fetch(...);
\*   if (res.status === 202) { await res.json(); ...; continue }
\*   if (res.ok) return; throw ... } throw <timed out>
\* fetch may reject, and so may res.json() of a 202 answer
WFS_Poll ==
    /\ At("waitForSnapshot", "poll")
    /\ IF Top.attempt < MAX_POLL_ATTEMPTS
       THEN \/ /\ log' = Append(log, Event("GET_snapshot", Top.attempt, Err(NetworkError)))
               /\ Throw(NetworkError)
            \/ \E status \in HttpStatuses :
                  /\ log' = Append(log, Event("GET_snapshot", Top.attempt, Ok(status)))
                  /\ IF status = 202
                     THEN \/ Goto([Top EXCEPT !.pc = "sleep"])
                          \/ Throw(JsonError)
                     ELSE IF ResponseOk(status) THEN Return(None)
                     ELSE Throw(PollFailedError)
       ELSE Throw(PollTimeoutError) /\ UNCHANGED log
    /\ UNCHANGED <<config, peer, page, faultBudget, table, esExists, esDocs, lastInfer, es0, faults, prevEnsured>>

\* await sleep(POLL_INTERVAL_MS); continue (attempt++)
WFS_Sleep ==
    /\ At("waitForSnapshot", "sleep")
    /\ log' = Append(log, Event("wait", POLL_INTERVAL_MS, NoRet))
    /\ Goto([Top EXCEPT !.pc = "poll", !.attempt = @ + 1])
    /\ UNCHANGED <<config, peer, page, faultBudget, table, esExists, esDocs, lastInfer, es0, faults, prevEnsured>>

InitPoll ==
    /\ table = <<>>
    /\ esExists = FALSE
    /\ esDocs = EmptyDocs
    /\ stack = <<>>
    /\ ret = NoRet
    /\ log = <<>>
    /\ lastInfer = NoInfer
    /\ es0 = [docs |-> EmptyDocs, exists |-> FALSE]
    /\ faults = 0
    /\ faultBudget = 0
    /\ prevEnsured = FALSE
    /\ config = Configured
    /\ peer = NoPeer
    /\ page = NoPage

NextPoll ==
    \/ Settle
    \/ CallWaitForSnapshot
    \/ WFS_Poll
    \/ WFS_Sleep

\* every answer arrives and every timer fires: a step that can be taken is
\* taken
SpecPoll == InitPoll /\ [][NextPoll]_vars /\ WF_vars(WFS_Poll) /\ WF_vars(WFS_Sleep)

(* The search page. A fetch is identified by its position in the sequence of
   the queries fetched; the graph of a response is identified by the query it
   answers; nodes is None while the page shows the initial empty list *)

\* what the user can have in the search box
PageQueries == {"", "a", "b"}

\* onChange of the search box: setQuery(q); the effect on [query] clears the
\* pending timer and arms one for the new query
setQuery(q) ==
    /\ page.issued # <<>>
    /\ q # page.query
    /\ page' = [page EXCEPT !.debounce = Some(q), !.query = q]
    /\ UNCHANGED <<table, esExists, esDocs, stack, ret, log, lastInfer, es0, faults,
                   faultBudget, prevEnsured, config, peer>>

\* the 400 ms timer fires: fetchGraph(query) runs up to its await fetch(...)
DebounceTimeout ==
    /\ page.debounce # None
    /\ Len(page.issued) < MaxFetches
    /\ page' = [page EXCEPT !.debounce = None,
                            !.inflight = @ \cup {Len(page.issued) + 1},
                            !.issued = Append(@, page.debounce[1]),
                            !.loading = TRUE]
    /\ UNCHANGED <<table, esExists, esDocs, stack, ret, log, lastInfer, es0, faults,
                   faultBudget, prevEnsured, config, peer>>

\* the response of fetch i arrives and is ok: setNodes(data.nodes ?? []), then
\* setLoading(false)
fetchGraph_Ok(i) ==
    /\ i \in page.inflight
    /\ page' = [page EXCEPT !.inflight = @ \ {i},
                            !.loading = FALSE,
                            !.nodes = Some(page.issued[i])]
    /\ UNCHANGED <<table, esExists, esDocs, stack, ret, log, lastInfer, es0, faults,
                   faultBudget, prevEnsured, config, peer>>

\* the response of fetch i is not ok, or the fetch rejects: nodes stay, then
\* setLoading(false)
fetchGraph_NotOk(i) ==
    /\ i \in page.inflight
    /\ page' = [page EXCEPT !.failed = TRUE,
                            !.inflight = @ \ {i},
                            !.loading = FALSE]
    /\ UNCHANGED <<table, esExists, esDocs, stack, ret, log, lastInfer, es0, faults,
                   faultBudget, prevEnsured, config, peer>>

\* the page after its first render: the initial-load effect has issued
\* fetchGraph("") and the debounce effect has armed its timer for ""
InitPage ==
    /\ table = <<>>
    /\ esExists = FALSE
    /\ esDocs = EmptyDocs
    /\ stack = <<>>
    /\ ret = NoRet
    /\ log = <<>>
    /\ lastInfer = NoInfer
    /\ es0 = [docs |-> EmptyDocs, exists |-> FALSE]
    /\ faults = 0
    /\ faultBudget = 0
    /\ prevEnsured = FALSE
    /\ config = Configured
    /\ peer = NoPeer
    /\ page = [debounce |-> Some(""), failed |-> FALSE, inflight |-> {1},
               issued |-> <<"">>, loading |-> TRUE, nodes |-> None, query |-> ""]

NextPage ==
    \/ \E q \in PageQueries : setQuery(q)
    \/ DebounceTimeout
    \/ \E i \in 1..MaxFetches : fetchGraph_Ok(i)
    \/ \E i \in 1..MaxFetches : fetchGraph_NotOk(i)

SpecPage == InitPage /\ [][NextPage]_vars

(* Two overlapping invocations over healthy services: the call on the stack
   (a sync or ensureProductsIndex) and the ensureProductsIndex of another
   request, whose awaits interleave with those of the first *)

\* the other request reaches its ensureProductsIndex while a call is running
PeerCall ==
    /\ stack # <<>>
    /\ peer.pc = "idle"
    /\ peer' = [pc |-> "start", result |-> NoRet]
    /\ UNCHANGED <<table, esExists, esDocs, stack, ret, log, lastInfer, es0, faults,
                   faultBudget, prevEnsured, config, page>>

\* const exists = await client.indices.exists(...); if (exists) return;
Peer_Exists ==
    /\ peer.pc = "start"
    /\ peer' = IF esExists THEN [pc |-> "done", result |-> Ok(None)]
                           ELSE [pc |-> "create", result |-> NoRet]
    /\ UNCHANGED <<table, esExists, esDocs, stack, ret, log, lastInfer, es0, faults,
                   faultBudget, prevEnsured, config, page>>

\* await client.indices.create(...): the index rejects a second creation
Peer_Create ==
    /\ peer.pc = "create"
    /\ IF esExists
       THEN /\ peer' = [pc |-> "done", result |-> Err(AlreadyExistsError)]
            /\ UNCHANGED esExists
       ELSE /\ peer' = [pc |-> "done", result |-> Ok(None)]
            /\ esExists' = TRUE
    /\ UNCHANGED <<table, esDocs, stack, ret, log, lastInfer, es0, faults,
                   faultBudget, prevEnsured, config, page>>

\* both invocations have ended; the next requests may arrive
PeerSettle ==
    /\ Idle
    /\ peer.pc = "done"
    /\ peer' = NoPeer
    /\ UNCHANGED <<table, esExists, esDocs, stack, ret, log, lastInfer, es0, faults,
                   faultBudget, prevEnsured, config, page>>

InitRace ==
    /\ table \in Tables
    /\ esExists = FALSE
    /\ esDocs = EmptyDocs
    /\ stack = <<>>
    /\ ret = NoRet
    /\ log = <<>>
    /\ lastInfer = NoInfer
    /\ es0 = [docs |-> EmptyDocs, exists |-> FALSE]
    /\ faults = 0
    /\ faultBudget = 0
    /\ prevEnsured = FALSE
    /\ config = Configured
    /\ peer = NoPeer
    /\ page = NoPage

NextRace ==
    \/ Settle
    \/ CallSync
    \/ CallEnsure
    \/ PeerCall
    \/ Peer_Exists
    \/ Peer_Create
    \/ PeerSettle
    \/ CIA_First
    \/ CIA_Wait
    \/ CIA_Retry
    \/ IES_Start
    \/ IES_Loop
    \/ IES_Batch
    \/ EPI_Exists
    \/ EPI_Create
    \/ IP_Bulk
    \/ SYNC_Fetch
    \/ SYNC_EnsuredEmpty
    \/ SYNC_Embedded
    \/ SYNC_Ensured
    \/ SYNC_Indexed

SpecRace == InitRace /\ [][NextRace]_vars

(* The sync alone, run any number of times over tables of several rows *)

SyncTables == UNION {[1..k -> RowCategories] : k \in 0..MaxSyncRows}

InitSync ==
    /\ table \in SyncTables
    /\ esExists = FALSE
    /\ esDocs = EmptyDocs
    /\ stack = <<>>
    /\ ret = NoRet
    /\ log = <<>>
    /\ lastInfer = NoInfer
    /\ es0 = [docs |-> EmptyDocs, exists |-> FALSE]
    /\ faults = 0
    /\ faultBudget = MaxFaults
    /\ prevEnsured = FALSE
    /\ config = Configured
    /\ peer = NoPeer
    /\ page = NoPage

NextSync ==
    \/ Settle
    \/ CallSync
    \/ CIA_First
    \/ CIA_Wait
    \/ CIA_Retry
    \/ IES_Start
    \/ IES_Loop
    \/ IES_Batch
    \/ EPI_Exists
    \/ EPI_Create
    \/ IP_Bulk
    \/ SYNC_Fetch
    \/ SYNC_EnsuredEmpty
    \/ SYNC_Embedded
    \/ SYNC_Ensured
    \/ SYNC_Indexed

SpecSync == InitSync /\ [][NextSync]_vars

(* The embedding texts and the documents the sync builds from the rows
   (part of the stretch of code that SYNC_Fetch and SYNC_Embedded run,
   here over rows with all their text fields) *)

\* a text column of a row: null or a string
FieldValues == {None} \cup {Some(x) : x \in Strings(MaxFieldLen)}

FullRows ==
    [brand : FieldValues, category : FieldValues, description : FieldValues,
     id : {<<"7">>}, name : FieldValues]

\* row 2 of the table: only the name is set
NameOnlyRow ==
    [brand |-> None, category |-> None, description |-> None, id |-> <<"8">>,
     name |-> Some(<<"a">>)]

\* Array.prototype.join(" ")
RECURSIVE JoinSpace(_)
JoinSpace(parts) ==
    IF parts = <<>> THEN <<>>
    ELSE IF Len(parts) = 1 THEN parts[1]
    ELSE parts[1] \o <<" ">> \o JoinSpace(Tail(parts))

\* Boolean(x) of a text column: null and "" are falsy
Truthy(f) == f # None /\ f[1] # <<>>

\* Variant: no fallback to the id.
EmbeddingTextNoFallback(row) ==
    LET fields == <<row.brand, row.name, row.category, row.description>>
        kept   == Keep(fields, {k \in 1..4 : Truthy(fields[k])})
    IN  Trim(JoinSpace([k \in 1..Len(kept) |-> kept[k][1]]))

\* [row.brand, row.name, row.category, row.description]
\*    .filter(Boolean).join(" ").trim() || String(row.id)
EmbeddingText(row) ==
    LET fields == <<row.brand, row.name, row.category, row.description>>
        kept   == Keep(fields, {k \in 1..4 : Truthy(fields[k])})
        joined == Trim(JoinSpace([k \in 1..Len(kept) |-> kept[k][1]]))
    IN  IF joined = <<>> THEN row.id ELSE joined

\* const texts = list.map(...)
SYNC_Texts ==
    /\ stack = <<>>
    /\ ret.kind = "none"
    /\ ret' = Ok([i \in 1..Len(table) |-> EmbeddingText(table[i])])
    /\ UNCHANGED <<config, peer, page, faultBudget, table, esExists, esDocs, stack, log, lastInfer, es0, faults, prevEnsured>>

\* const docs = list.map((row, i) => ({ id: String(row.id ?? ""), ... }));
\* indexProducts(docs): the operations of the bulk request, by document id
SYNC_Docs ==
    /\ stack = <<>>
    /\ ret.kind = "ok"
    /\ log = <<>>
    /\ log' = <<Event("bulk", [i \in 1..Len(table) |-> table[i].id], NoRet)>>
    /\ UNCHANGED <<config, peer, page, faultBudget, table, esExists, esDocs, stack, ret, lastInfer, es0, faults, prevEnsured>>

InitText ==
    /\ table \in {<<row, NameOnlyRow>> : row \in FullRows}
    /\ esExists = FALSE
    /\ esDocs = EmptyDocs
    /\ stack = <<>>
    /\ ret = NoRet
    /\ log = <<>>
    /\ lastInfer = NoInfer
    /\ es0 = [docs |-> EmptyDocs, exists |-> FALSE]
    /\ faults = 0
    /\ faultBudget = 0
    /\ prevEnsured = FALSE
    /\ config = Configured
    /\ peer = NoPeer
    /\ page = NoPage

NextText ==
    \/ SYNC_Texts
    \/ SYNC_Docs

SpecText == InitText /\ [][NextText]_vars


-----------------------------------------------------------------------------
(* Readers of the history *)

Blank(q) == \A i \in 1..Len(q) : q[i] = " "

Posts(t) == {i \in 1..Len(t) : t[i].ev = "POST_inference"}

ColdFailure(e) ==
    /\ e.ev = "POST_inference"
    /\ e.outcome.kind = "err"
    /\ e.outcome.msg \in ColdStartMessages

CallsOf(l, fn) == {i \in 1..Len(l) : l[i].ev = "call" /\ l[i].arg = fn}

TopLevel(fn) == log # <<>> /\ log[1].ev = "call" /\ log[1].arg = fn

\* the top-level call of fn has returned normally
Returned(fn) == Done /\ TopLevel(fn) /\ ret.kind = "ok"

LastEvent == log[Len(log)]

-----------------------------------------------------------------------------
(* Properties: runSemanticSearch with a blank query *)

\* C1: runSemanticSearch called with an empty or whitespace-only query
\* returns the empty list in that very step, and on that path sends nothing:
\* no embedding request, no index existence / count / search request, no
\* sync (the history of the call holds the call itself and nothing else),
\* and the index and the table are left as they were.
C1_BlankQueryReturnsEmptyWithoutRequests ==
    [][(At("runSemanticSearch", "start") /\ Blank(Top.query))
          => /\ stack' = <<>>
             /\ ret'.kind = "ok" /\ ret'.val = <<>>
             /\ Len(log') = 1 /\ TopLevel("runSemanticSearch")
             /\ UNCHANGED <<table, esExists, esDocs>>]_vars

\* a search has returned [] with nothing but its own call in the history
C1_Witness ==
    /\ Returned("runSemanticSearch")
    /\ ret.val = <<>>
    /\ Len(log) = 1

-----------------------------------------------------------------------------
(* Properties: the embedding provider *)

\* C2: for every list of texts (empty, shorter than a batch, several batches
\* with a partial last one) inferEmbeddings either returns exactly as many
\* vectors as there are texts, or raises: a normal return never carries
\* fewer or more vectors than texts.
C2_OneVectorPerTextOrError ==
    [][(/\ stack # <<>>
        /\ Top.fn = "inferEmbeddings"
        /\ Len(stack') < Len(stack)
        /\ ret'.kind = "ok")
          => ret'.val = Top.n]_vars

\* several batches, the last one partial, all embedded
C2_Witness ==
    /\ Returned("inferEmbeddings")
    /\ ret.val > 2 * INFERENCE_BATCH_SIZE
    /\ ret.val % INFERENCE_BATCH_SIZE # 0
    /\ Cardinality(Posts(log)) = 3

\* C3: callInferenceApi sends the request once, or twice exactly when the
\* first attempt failed with the cold-start signature; it never sends a
\* third; a failure of the second attempt is what the caller gets; a first
\* failure without the cold-start signature is what the caller gets, with
\* no wait and no second attempt.
C3_AtMostOneRetryOnlyOnColdStart ==
    /\ (stack # <<>> /\ Top.fn = "callInferenceApi")
         => Cardinality(Posts(SubSeq(log, Top.from, Len(log)))) <= 2
    /\ lastInfer.trace # <<>>
         => LET t     == lastInfer.trace
                first == t[1]
                last  == t[Len(t)]
                posts == Cardinality(Posts(t))
            IN  /\ first.ev = "POST_inference"
                /\ last.ev = "POST_inference"
                /\ posts \in {1, 2}
                /\ (posts = 2) <=> ColdFailure(first)
                /\ (first.outcome.kind = "err" /\ ~ColdFailure(first))
                     => /\ Len(t) = 1
                        /\ lastInfer.result.kind = "err"
                        /\ lastInfer.result.msg = first.outcome.msg
                /\ (posts = 2 /\ last.outcome.kind = "err")
                     => /\ lastInfer.result.kind = "err"
                        /\ lastInfer.result.msg = last.outcome.msg

\* a cold start answered the first attempt and the retry failed too
C3_Witness ==
    /\ Cardinality(Posts(lastInfer.trace)) = 2
    /\ ColdFailure(lastInfer.trace[1])
    /\ lastInfer.result.kind = "err"
    /\ lastInfer.result.msg \notin ColdStartMessages

\* C4: when the first attempt fails with the cold-start signature and the
\* second succeeds, the provider waited the configured delay between the
\* two, sent the same request body twice, and returns the vectors of the
\* second answer; the caller of inferEmbedding sees no error.
C4_ColdStartThenSuccess ==
    LET t == lastInfer.trace
    IN  (/\ Len(t) >= 2
         /\ ColdFailure(t[1])
         /\ t[Len(t)].ev = "POST_inference"
         /\ t[Len(t)].outcome.kind = "ok")
          => /\ Len(t) = 3
             /\ t[2].ev = "wait"
             /\ t[2].arg = DEPLOYMENT_TIMEOUT_RETRY_DELAY_MS
             /\ t[3].arg = t[1].arg
             /\ lastInfer.result.kind = "ok"
             /\ lastInfer.result.val = t[3].outcome.val
             /\ (Done /\ TopLevel("inferEmbedding")) => ret.kind = "ok"

\* inferEmbedding has returned a vector after a cold start and one retry
C4_Witness ==
    /\ Returned("inferEmbedding")
    /\ Len(lastInfer.trace) = 3
    /\ ColdFailure(lastInfer.trace[1])
    /\ lastInfer.trace[3].outcome.kind = "ok"

-----------------------------------------------------------------------------
(* Properties: lazy sync of runSemanticSearch *)

\* C5: in runSemanticSearch, when getProductsIndexCount answers 0 the sync
\* is called, then and only then, so exactly once per search; when the sync
\* throws, the next step of the search is the call of searchProducts (the
\* error is swallowed); and when the index is still empty and answers the
\* query, the search that follows a failed sync returns [] instead of failing.
C5_LazySyncOnceAndSwallowed ==
    [][/\ (At("runSemanticSearch", "counted") /\ ret.val = 0)
            => /\ CallsOf(log, "syncProductsFromSupabase") = {}
               /\ Cardinality(CallsOf(log', "syncProductsFromSupabase")) = 1
               /\ stack'[Len(stack')].fn = "syncProductsFromSupabase"
       /\ (At("runSemanticSearch", "counted") /\ ret.val # 0)
            => CallsOf(log', "syncProductsFromSupabase") = {}
       /\ (stack # <<>> /\ stack[1].fn = "runSemanticSearch")
            => Cardinality(CallsOf(log', "syncProductsFromSupabase")) <= 1
       /\ (At("runSemanticSearch", "synced") /\ ret.kind = "err")
            => /\ Len(stack') = 2
               /\ stack'[2].fn = "searchProducts"
               /\ log' = Append(log, CallEvent("searchProducts"))
       /\ (/\ At("runSemanticSearch", "searched")
           /\ Top.syncThrew
           /\ ret.kind = "ok"
           /\ DOMAIN esDocs = {})
            => /\ stack' = <<>>
               /\ ret'.kind = "ok" /\ ret'.val = <<>>]_vars

\* a search over an empty index whose sync failed at the table read has
\* queried the index and returned []
C5_Witness ==
    /\ Returned("runSemanticSearch")
    /\ ret.val = <<>>
    /\ Cardinality(CallsOf(log, "syncProductsFromSupabase")) = 1
    /\ \E i \in 1..Len(log) : log[i].ev = "select" /\ log[i].outcome.kind = "err"
    /\ LastEvent.ev = "search" /\ LastEvent.outcome.kind = "ok"
    /\ DOMAIN esDocs = {}

-----------------------------------------------------------------------------
(* Properties: ranking of the results *)

\* searchProducts has just returned its normalised results to
\* runSemanticSearch; the hits the index answered are the last event
SearchReturned == At("runSemanticSearch", "searched") /\ ret.kind = "ok"

LastHits == LastEvent.outcome.val

RawOf(id) ==
    LET k == CHOOSE j \in 1..Len(LastHits) : LastHits[j].id = id
    IN  LastHits[k].score[1]

MaxRaw ==
    CHOOSE m \in {LastHits[j].score[1] : j \in 1..Len(LastHits)} :
        \A j \in 1..Len(LastHits) : LastHits[j].score[1] <= m

InUnitInterval(r) == r.den > 0 /\ 0 <= r.num /\ r.num <= r.den

IsOne(r) == r.den > 0 /\ r.num = r.den

Ones == {k \in 1..Len(ret.val) : IsOne(ret.val[k].similarity)}

\* C6 as stated: every similarity is in [0, 1] and, when the maximum raw
\* score is above 0, exactly one result, a top-scored one, has similarity 1,
\* ties in raw score and hits without a _source included.
C6_ExactlyOneResultAtOne ==
    (SearchReturned /\ LastHits # <<>>)
      => /\ \A k \in 1..Len(ret.val) : InUnitInterval(ret.val[k].similarity)
         /\ MaxRaw > 0
              => /\ Cardinality(Ones) = 1
                 /\ \A k \in Ones : RawOf(ret.val[k].id) = MaxRaw

\* C6, amended: every similarity is in [0, 1] and, when the maximum raw
\* score of the hits is above 0, a returned result has similarity 1 exactly
\* when its raw score equals that maximum: one such result for each
\* top-scored hit that carries a _source, several on a tie, none when no
\* top-scored hit carries a _source.
C6_OneExactlyForTopScoredHits ==
    (SearchReturned /\ LastHits # <<>>)
      => /\ \A k \in 1..Len(ret.val) : InUnitInterval(ret.val[k].similarity)
         /\ MaxRaw > 0
              => /\ \A k \in 1..Len(ret.val) :
                       (k \in Ones) <=> (RawOf(ret.val[k].id) = MaxRaw)
                 /\ Cardinality(Ones) =
                       Cardinality({j \in 1..Len(LastHits) :
                                       /\ LastHits[j].hasSource
                                       /\ LastHits[j].score[1] = MaxRaw})

\* two hits tied at the top, both returned with similarity 1, and a third
\* hit without a _source
C6_Witness ==
    /\ SearchReturned
    /\ Len(LastHits) = 3
    /\ MaxRaw > 0
    /\ Cardinality(Ones) = 2
    /\ \E j \in 1..3 : ~LastHits[j].hasSource

\* C7: when the similarity of the first result is above 0, every result
\* runSemanticSearch returns has a similarity of at least 0.4 times that
\* of the first, and a result at or above that threshold is missing from
\* the returned list only by the truncation to limit (it is returned
\* whenever fewer than limit results at or above the threshold precede it).
C7_CutoffKeepsExactlyAboveThreshold ==
    [][(/\ SearchReturned
        /\ Len(ret.val) > 0
        /\ ret.val[1].similarity.num > 0)
          => LET top == ret.val[1].similarity
                 passes(r) ==
                     10 * r.similarity.num * top.den >= 4 * top.num * r.similarity.den
                 rank(k) == Cardinality({i \in 1..k : passes(ret.val[i])})
             IN  /\ ret'.kind = "ok"
                 /\ \A j \in 1..Len(ret'.val) : passes(ret'.val[j])
                 /\ \A k \in 1..Len(ret.val) :
                       (passes(ret.val[k]) /\ rank(k) <= Top.limit)
                         => \E j \in 1..Len(ret'.val) : ret'.val[j].id = ret.val[k].id]_vars

\* three hits with a _source: the second exactly at 0.4 of the first is
\* returned, the third is below the threshold and dropped
C7_Witness ==
    /\ Returned("runSemanticSearch")
    /\ LastEvent.ev = "search"
    /\ Len(LastHits) = 3
    /\ \A j \in 1..3 : LastHits[j].hasSource
    /\ Len(ret.val) = 2
    /\ ret.val[2].similarity = Rat(2, 5)

\* C8: the list runSemanticSearch returns is a subsequence of the hits of
\* the index, in the order of the hits, and in non-increasing similarity.
C8_ResultsKeepHitOrder ==
    (Returned("runSemanticSearch") /\ LastEvent.ev = "search")
      => LET pos(id) == CHOOSE j \in 1..Len(LastHits) : LastHits[j].id = id
         IN  /\ \A a \in 1..Len(ret.val) :
                   \E j \in 1..Len(LastHits) : LastHits[j].id = ret.val[a].id
             /\ \A a, b \in 1..Len(ret.val) :
                   a < b => pos(ret.val[a].id) < pos(ret.val[b].id)
             /\ \A a \in 1..(Len(ret.val) - 1) :
                   ret.val[a].similarity.num * ret.val[a + 1].similarity.den
                     >= ret.val[a + 1].similarity.num * ret.val[a].similarity.den

\* the first and the third of three hits returned, with different
\* similarities
C8_Witness ==
    /\ Returned("runSemanticSearch")
    /\ LastEvent.ev = "search"
    /\ Len(LastHits) = 3
    /\ Len(ret.val) = 2
    /\ ret.val[1].id = LastHits[1].id
    /\ ret.val[2].id = LastHits[3].id
    /\ ret.val[1].similarity # ret.val[2].similarity

-----------------------------------------------------------------------------
(* Properties: the limit *)

Requested(optLimit) == IF optLimit = None THEN defaultLimit ELSE optLimit[1]

\* runSemanticSearch returns normally in this step
SearchReturns ==
    /\ Len(stack) = 1
    /\ Top.fn = "runSemanticSearch"
    /\ stack' = <<>>
    /\ ret'.kind = "ok"

\* C9 as stated: for every requested limit (absent, 0, negative, above 500)
\* the number of results never exceeds min(requested, 500), the requested
\* limit being 20 when absent.
C9_NeverMoreThanRequested ==
    [][SearchReturns
         => Len(ret'.val) <= Min(Requested(Top.optLimit), MaxLimit)]_vars

\* C9, amended: the limit is 20 when absent and never above 500, and for
\* every requested limit that is absent or not negative the number of
\* results never exceeds min(requested, 500).  (With a negative limit a
\* blank query still returns the empty list, whose length is above the
\* negative limit.)
C9_NeverMoreThanNonNegativeRequested ==
    [][/\ (At("runSemanticSearch", "start") /\ ~Blank(Top.query))
            => /\ stack'[1].limit <= MaxLimit
               /\ stack'[1].limit = Min(Requested(Top.optLimit), MaxLimit)
       /\ (SearchReturns /\ Requested(Top.optLimit) >= 0)
            => Len(ret'.val) <= Min(Requested(Top.optLimit), MaxLimit)]_vars

\* a limit of 1 has cut a list of two results tied at the top
C9_Witness ==
    /\ Returned("runSemanticSearch")
    /\ LastEvent.ev = "search"
    /\ LastEvent.arg.size = 2
    /\ Len(LastHits) = 2
    /\ \A j \in 1..2 : LastHits[j].hasSource /\ LastHits[j].score[1] = MaxRaw
    /\ MaxRaw > 0
    /\ Len(ret.val) = 1

-----------------------------------------------------------------------------
(* Properties: index set-up *)

\* C10: a call of ensureProductsIndex that follows a successful one sends
\* no create request, does not end in the index's already-exists error, and
\* leaves the index existing with the documents it had.
C10_EnsureTwiceIsEnsureOnce ==
    (prevEnsured /\ TopLevel("ensureProductsIndex"))
      => /\ \A i \in 1..Len(log) : log[i].ev # "indices.create"
         /\ esExists /\ es0.exists
         /\ esDocs = es0.docs
         /\ Done => ret.msg # AlreadyExistsError

\* the second of two calls in a row has returned, over an index that holds
\* documents
C10_Witness ==
    /\ prevEnsured
    /\ Returned("ensureProductsIndex")
    /\ \E i \in 1..Len(log) : log[i].ev = "indices.exists"
    /\ DOMAIN esDocs # {}

-----------------------------------------------------------------------------
(* Properties: overlapping index set-up *)

\* C11 as stated: with two overlapping invocations of sync or of
\* ensureProductsIndex, whatever the interleaving of their exists and create
\* steps, neither ends in the index's already-exists error, and once both
\* have returned the index exists.
C11_CreationRaceTolerated ==
    /\ ret.msg # AlreadyExistsError
    /\ peer.result.msg # AlreadyExistsError
    /\ (Done /\ ret.kind = "ok" /\ peer.pc = "done") => esExists

-----------------------------------------------------------------------------
(* Properties: the sync *)

BulkEvents == {i \in 1..Len(log) : log[i].ev = "bulk"}

\* the bulk request was the last request of the call and the index answered it
BulkAnswered ==
    /\ log # <<>>
    /\ LastEvent.ev = "bulk"
    /\ LastEvent.outcome.kind = "ok"

\* C12: when the embedding step of syncProductsFromSupabase fails, or
\* returns a number of embeddings that is not the number of rows, the sync
\* ends with an error, and it has sent no bulk request and written no
\* document: the index holds the documents it held when the sync began.
C12_EmbeddingFailureAbortsSync ==
    /\ (At("syncProductsFromSupabase", "embedded")
          /\ (ret.kind = "err" \/ ret.val # Top.n))
         => (esDocs = es0.docs /\ BulkEvents = {})
    /\ (Done /\ TopLevel("syncProductsFromSupabase") /\ lastInfer.result.kind = "err")
         => /\ ret.kind = "err"
            /\ ret.msg = lastInfer.result.msg
            /\ esDocs = es0.docs
            /\ BulkEvents = {}

\* a sync over two rows has ended with the error of its embedding request
C12_Witness ==
    /\ Done
    /\ TopLevel("syncProductsFromSupabase")
    /\ Len(table) = 2
    /\ lastInfer.result.kind = "err"
    /\ ret.kind = "err"

C18_OneDocumentPerRow ==
    /\ DOMAIN esDocs \subseteq 1..Len(table)
    /\ TopLevel("syncProductsFromSupabase")
         => DOMAIN es0.docs \subseteq DOMAIN esDocs
    /\ (/\ Returned("syncProductsFromSupabase")
        /\ Len(table) = 0 \/ (BulkAnswered /\ LastEvent.outcome.val.rejected = {}))
         => /\ DOMAIN esDocs = 1..Len(table)
            /\ \A i \in 1..Len(table) : esDocs[i] = table[i]

\* a second sync of two rows over an index that held both documents
C18_Witness ==
    /\ Returned("syncProductsFromSupabase")
    /\ BulkAnswered
    /\ LastEvent.outcome.val.rejected = {}
    /\ Len(table) = 2
    /\ DOMAIN es0.docs = {1, 2}
    /\ DOMAIN esDocs = {1, 2}

-----------------------------------------------------------------------------
(* Properties: the embedding text of a row *)

\* the texts of the rows have been built
TextsBuilt == stack = <<>> /\ ret.kind = "ok" /\ Len(table) = 2 /\ Len(ret.val) = 2

\* the columns of a row that are neither null nor ""
PresentFields(row) ==
    LET fields == <<row.brand, row.name, row.category, row.description>>
        F[k \in 0..4] ==
            IF k = 0 THEN <<>>
            ELSE IF fields[k] # None /\ Len(fields[k][1]) > 0
                 THEN Append(F[k - 1], fields[k][1])
                 ELSE F[k - 1]
    IN  F[4]

\* t without its leading and trailing spaces
Stripped(t) ==
    LET solid == {i \in 1..Len(t) : t[i] # " "}
    IN  IF solid = {} THEN <<>>
        ELSE SubSeq(t, CHOOSE a \in solid : \A b \in solid : a <= b,
                       CHOOSE a \in solid : \A b \in solid : a >= b)

\* C14 as stated: the text of a row is its present columns of brand,
\* name, category, description, in that order, joined by single spaces,
\* without leading or trailing space, or the id of the row when all four
\* are absent; it is never empty, and every row has its document in the
\* bulk payload.
C14_TextIsPresentFieldsOrIdWhenAllAbsent ==
    /\ TextsBuilt
         => \A i \in 1..2 :
               LET present == PresentFields(table[i])
               IN  /\ ret.val[i] # <<>>
                   /\ present = <<>> => ret.val[i] = table[i].id
                   /\ present # <<>> => ret.val[i] = Stripped(JoinSpace(present))
    /\ (TextsBuilt /\ log # <<>>)
         => LastEvent.arg = [i \in 1..2 |-> table[i].id]

\* C14, amended: the text of a row is its present columns of brand, name,
\* category, description, in that order, joined by single spaces, without
\* the leading and trailing spaces of the whole, or the id of the row when
\* that leaves nothing (all four absent, or nothing but spaces in them); it
\* is never empty, has no leading or trailing space, and every row has its
\* document in the bulk payload.
C14_TextIsPresentFieldsOrIdWhenBlank ==
    /\ TextsBuilt
         => \A i \in 1..2 :
               LET joined == Stripped(JoinSpace(PresentFields(table[i])))
               IN  /\ ret.val[i] # <<>>
                   /\ ret.val[i][1] # " " /\ ret.val[i][Len(ret.val[i])] # " "
                   /\ joined = <<>> => ret.val[i] = table[i].id
                   /\ joined # <<>> => ret.val[i] = joined
    /\ (TextsBuilt /\ log # <<>>)
         => LastEvent.arg = [i \in 1..2 |-> table[i].id]

\* a row whose brand is " a", whose category is "", whose description is
\* null, next to the row with only a name: texts "a a" and "a", two
\* documents
C14_Witness ==
    /\ TextsBuilt
    /\ log # <<>>
    /\ table[1].brand = Some(<<" ", "a">>)
    /\ table[1].name = Some(<<"a">>)
    /\ table[1].category = Some(<<>>)
    /\ table[1].description = None
    /\ ret.val[1] = <<"a", " ", "a">>
    /\ ret.val[2] = <<"a">>
    /\ Len(LastEvent.arg) = 2

-----------------------------------------------------------------------------
(* Properties: the category filter *)

\* the documents of the index in a category
InCategory(category) == {i \in DOMAIN esDocs : esDocs[i] = category}

C15_Step ==
    /\ (/\ At("runSemanticSearch", "start")
        /\ Top.optCategory # None
        /\ Stripped(Top.optCategory[1]) # <<>>
        /\ Len(stack') = 2)
         => stack'[1].category = Some(Stripped(Top.optCategory[1]))
    /\ (/\ At("runSemanticSearch", "searched")
        /\ Top.category # None
        /\ stack' = <<>>
        /\ ret'.kind = "ok")
         => /\ LastEvent.ev = "search"
            /\ LastEvent.arg.category = Top.category
            /\ \A a \in 1..Len(ret'.val) : ret'.val[a].category = Top.category
            /\ Len(ret'.val) <= Cardinality(InCategory(Top.category))
            /\ \A a \in 1..(Len(ret'.val) - 1) :
                  RatGE(ret'.val[a].similarity, ret'.val[a + 1].similarity)

\* C15: when a category is supplied that is not blank, the search is
\* restricted to its trimmed value: every result returned has exactly that
\* category, there are no more results than documents of that category in
\* the index, and they come by descending similarity.
C15_ResultsOnlyOfTheCategory == [][C15_Step]_vars

\* a search in category "s" has returned the two documents of that category,
\* of the three of the index, with different similarities
C15_Witness ==
    /\ Returned("runSemanticSearch")
    /\ LastEvent.ev = "search"
    /\ LastEvent.arg.category = Some(<<"s">>)
    /\ Cardinality(DOMAIN esDocs) > Cardinality(InCategory(Some(<<"s">>)))
    /\ Len(ret.val) = 2
    /\ ret.val[1].category = Some(<<"s">>)
    /\ ret.val[2].category = Some(<<"s">>)
    /\ ret.val[1].similarity # ret.val[2].similarity

-----------------------------------------------------------------------------
(* Properties: configuration errors *)

NotConfigured == ~(config.client /\ config.inferenceId)

-----------------------------------------------------------------------------
(* Properties: what a search writes *)

SyncTriggered == CallsOf(log, "syncProductsFromSupabase") # {}

\* the count request of the search was answered with a positive number
CountedSome ==
    \E i \in 1..Len(log) :
        /\ log[i].ev = "count"
        /\ log[i].outcome.kind = "ok"
        /\ log[i].outcome.val > 0

\* C17 as stated: a search never creates, modifies or removes a document of
\* the index, whatever the state of the index when it arrives.
C17_SearchNeverWrites ==
    TopLevel("runSemanticSearch") => esDocs = es0.docs

\* C17, amended: a search writes documents only through the sync it
\* triggers when the index reports zero documents. When the count is
\* positive no sync is triggered; without a sync no bulk request is sent and
\* the documents are exactly those of the arrival; and no search removes a
\* document.
C17_SearchWritesOnlyThroughLazySync ==
    TopLevel("runSemanticSearch")
      => /\ CountedSome => ~SyncTriggered
         /\ ~SyncTriggered => (esDocs = es0.docs /\ BulkEvents = {})
         /\ DOMAIN es0.docs \subseteq DOMAIN esDocs

\* a search that arrived at an empty index has returned, and the sync it
\* triggered has written a document
C17_Witness ==
    /\ Returned("runSemanticSearch")
    /\ SyncTriggered
    /\ es0.docs = EmptyDocs
    /\ esDocs # EmptyDocs

-----------------------------------------------------------------------------
(* Properties: the cutoff is monotone in its fraction *)

\* the identifiers of a list of results
IdsOf(results) == {results[k].id : k \in 1..Len(results)}

\* C19: for the results that searchProducts returned, the cutoff at the
\* fraction of the code is the cutoff that runSemanticSearch applies, and
\* every result kept at a fraction of at most 0.4 is kept at every lower
\* fraction: lowering the fraction never removes a result.
C19_CutoffMonotoneInFraction ==
    SearchReturned
      => /\ CutoffAt(ret.val, CutoffTenths) = Cutoff(ret.val)
         /\ \A lower \in 0..CutoffTenths : \A higher \in lower..CutoffTenths :
               IdsOf(CutoffAt(ret.val, higher)) \subseteq IdsOf(CutoffAt(ret.val, lower))

\* three results of similarities 1, 2/5 and 1/5: two kept at 0.4 and at 0.3,
\* three at 0.2
C19_Witness ==
    /\ SearchReturned
    /\ Len(ret.val) = 3
    /\ Len(Cutoff(ret.val)) = 2
    /\ Len(CutoffAt(ret.val, 3)) = 2
    /\ Len(CutoffAt(ret.val, 2)) = 3

-----------------------------------------------------------------------------
(* Properties: the chunks of a bulk embedding call *)

\* the inference request before request q of the history, 0 if q is the first
PrevPost(q) ==
    IF \E p \in Posts(log) : p < q
    THEN CHOOSE p \in Posts(log) : p < q /\ \A r \in Posts(log) : r < q => r <= p
    ELSE 0

\* request q repeats the chunk of the request before it
IsRetry(q) == PrevPost(q) # 0 /\ log[PrevPost(q)].arg = log[q].arg

\* C20: a bulk embedding call sends its texts in chunks of at most
\* INFERENCE_BATCH_SIZE, one after the other from the first text on: a
\* request follows a request that succeeded, with the next chunk, or is the
\* one retry of a chunk that failed on a cold start. After any other failure
\* no request is sent, and the call ends with an error and no result; a call
\* that returns has had every chunk answered.
C20_ChunksInOrderFailureAborts ==
    TopLevel("inferEmbeddings")
      => /\ \A q \in Posts(log) :
               LET p == PrevPost(q)
               IN  /\ log[q].arg.input_type = "INGEST"
                   /\ log[q].arg.input.count \in 1..INFERENCE_BATCH_SIZE
                   /\ p = 0 => log[q].arg.input.from = 0
                   /\ p # 0 =>
                        \/ /\ log[p].outcome.kind = "ok"
                           /\ log[p].arg.input.count = INFERENCE_BATCH_SIZE
                           /\ log[q].arg.input.from
                                = log[p].arg.input.from + INFERENCE_BATCH_SIZE
                        \/ /\ ColdFailure(log[p])
                           /\ ~IsRetry(p)
                           /\ log[q].arg = log[p].arg
         /\ (Done /\ ret.kind = "ok")
              => \A p \in Posts(log) :
                    log[p].outcome.kind = "err" => \E q \in Posts(log) : PrevPost(q) = p
         /\ (Done /\ Posts(log) # {} /\ LastEvent.outcome.kind = "err")
              => ret = Err(LastEvent.outcome.msg)

\* the first chunk was embedded, the request of the second chunk failed (not
\* a cold start): the call has ended with that error after two requests
C20_Witness ==
    /\ Done
    /\ TopLevel("inferEmbeddings")
    /\ Cardinality(Posts(log)) = 2
    /\ LastEvent.ev = "POST_inference"
    /\ LastEvent.arg.input.from = INFERENCE_BATCH_SIZE
    /\ LastEvent.outcome.kind = "err"
    /\ ~ColdFailure(LastEvent)
    /\ ret.kind = "err"

-----------------------------------------------------------------------------
(* Properties: the search query *)

\* searchProducts sends its request in this step
SearchSent ==
    /\ At("searchProducts", "start")
    /\ Len(log') = Len(log) + 1
    /\ log'[Len(log')].ev = "search"

ClausesOf(clauses, kind) == {i \in 1..Len(clauses) : clauses[i].clause = kind}

C21_Step ==
    SearchSent
      => LET query    == log'[Len(log')].arg.query
             supplied == Top.category # None /\ ~Blank(Top.category[1])
         IN  /\ Cardinality(ClausesOf(query.must, "knn")) = 1
             /\ supplied
                  => /\ Cardinality(ClausesOf(query.must, "term")) = 1
                     /\ \A i \in ClausesOf(query.must, "term") :
                           /\ query.must[i].field = "category"
                           /\ query.must[i].value = Stripped(Top.category[1])
             /\ ~supplied => ClausesOf(query.must, "term") = {}
             /\ ClausesOf(query.must, "match") = {}
             /\ ClausesOf(query.should, "match") = 1..Len(query.should)
             /\ (supplied \/ query.should # <<>>) <=> query.bool

\* C21: the query that searchProducts sends always holds the k-NN clause,
\* once, as a required clause; the term filter on the category is a required
\* clause exactly when a category that is not blank is supplied, with its
\* trimmed value; the colour boosts are optional (should) clauses, never
\* required ones; and the query is the bare k-NN clause exactly when there is
\* neither a category nor a boost.
C21_QueryClauses == [][C21_Step]_vars

\* a search in category "s" for "red tan" was sent with two required clauses
\* (k-NN, term) and four optional ones
C21_Witness ==
    /\ Done
    /\ TopLevel("searchProducts")
    /\ LastEvent.ev = "search"
    /\ LastEvent.arg.query.bool
    /\ Len(LastEvent.arg.query.must) = 2
    /\ LastEvent.arg.query.must[2].value = <<"s">>
    /\ Len(LastEvent.arg.query.should) = 4

-----------------------------------------------------------------------------
(* Properties: the colour boosts *)

\* where the words of a text start: a character that is not a space, at the
\* beginning of the text or after a space
WordStarts(text) ==
    {a \in 1..Len(text) : text[a] # " " /\ (a = 1 \/ text[a - 1] = " ")}

\* the word of a text that starts at a, in lower case
WordAt(text, a) ==
    LET ends == {b \in a..Len(text) :
                    /\ \A i \in a..b : text[i] # " "
                    /\ (b = Len(text) \/ text[b + 1] = " ")}
    IN  toLowerCase(SubSeq(text, a, CHOOSE b \in ends : TRUE))

\* the colour words of a text, in lower case, in the order of the text
ColorWords(text) ==
    LET starts == {a \in WordStarts(text) : WordAt(text, a) \in COLOR_KEYWORDS}
    IN  [j \in 1..Cardinality(starts) |->
            WordAt(text, CHOOSE a \in starts :
                            Cardinality({x \in starts : x < a}) = j - 1)]

C22_Step ==
    /\ SearchSent
         => LET should == log'[Len(log')].arg.query.should
                colors == ColorWords(Top.queryText)
            IN  /\ Len(should) = 2 * Len(colors)
                /\ \A j \in 1..Len(colors) :
                      /\ should[2 * j - 1].clause = "match"
                      /\ should[2 * j - 1].field = "name"
                      /\ should[2 * j - 1].value = colors[j]
                      /\ should[2 * j - 1].boost = 15
                      /\ should[2 * j].clause = "match"
                      /\ should[2 * j].field = "description"
                      /\ should[2 * j].value = colors[j]
                      /\ should[2 * j].boost = 10
    /\ (/\ Len(stack) = 1
        /\ Top.fn = "runSemanticSearch"
        /\ Len(stack') = 2
        /\ stack'[2].fn = "searchProducts")
         => stack'[2].queryText = Top.trimmed
    /\ (At("runSemanticSearch", "start") /\ Len(stack') = 2)
         => ColorWords(stack'[1].trimmed) = ColorWords(Top.query)

\* C22: the query of a search holds colour boosts exactly when a word of
\* the query text (between whitespace, in lower case) is a colour keyword:
\* for each such word, in order, one match clause on name with boost 15 and
\* one on description with boost 10, and nothing else. runSemanticSearch
\* hands the query text (trimmed, which leaves the words as they are) to
\* searchProducts.
C22_BoostsForColorWords == [][C22_Step]_vars

\* runSemanticSearch has searched for "Red tan": boosts for "red" and "tan"
C22_Witness ==
    /\ At("runSemanticSearch", "searched")
    /\ ret.kind = "ok"
    /\ LastEvent.ev = "search"
    /\ Top.trimmed = <<"R", "e", "d", " ", "t", "a", "n">>
    /\ Len(LastEvent.arg.query.should) = 4
    /\ LastEvent.arg.query.should[1].value = <<"r", "e", "d">>
    /\ LastEvent.arg.query.should[1].boost = NameBoost
    /\ LastEvent.arg.query.should[4].value = <<"t", "a", "n">>
    /\ LastEvent.arg.query.should[4].boost = DescriptionBoost

-----------------------------------------------------------------------------
(* Properties: the shapes of an inference response *)

\* doRequest has parsed a response
Parsed == Done /\ log # <<>> /\ log[1].ev = "response"

\* an array of the body has as many elements as there were inputs, each of
\* them usable
Matches(shape, expected) ==
    shape # None /\ shape[1].len = expected /\ shape[1].valid = expected

\* C23 as stated: the shapes are tried in the order text_embedding,
\* embeddings, inference_results; vectors come only from the first of them
\* whose element count is the expected count, as many as expected; when none
\* of the three matches, the shape-mismatch error is raised.
C23_ThreeShapesInOrderOrError ==
    Parsed
      => LET res      == log[1].outcome.val
             expected == log[1].arg
             first    == IF Matches(res.text_embedding, expected) THEN "text_embedding"
                         ELSE IF Matches(res.embeddings, expected) THEN "embeddings"
                         ELSE IF Matches(res.inference_results, expected)
                              THEN "inference_results"
                         ELSE "none"
         IN  IF first = "none"
             THEN ret = Err(ShapeError)
             ELSE ret = Ok([shape |-> first, vectors |-> expected])

\* C23, amended: the shapes are tried in the order text_embedding,
\* embeddings, inference_results and, for a single input only, a vector at
\* the top level of the body; vectors come only from the first of them that
\* matches, as many as expected; when none of the four matches, the
\* shape-mismatch error is raised.
C23_FourShapesInOrderOrError ==
    Parsed
      => LET res      == log[1].outcome.val
             expected == log[1].arg
             first    == IF Matches(res.text_embedding, expected) THEN "text_embedding"
                         ELSE IF Matches(res.embeddings, expected) THEN "embeddings"
                         ELSE IF Matches(res.inference_results, expected)
                              THEN "inference_results"
                         ELSE IF expected = 1 /\ res.single THEN "single"
                         ELSE "none"
         IN  IF first = "none"
             THEN ret = Err(ShapeError)
             ELSE ret = Ok([shape |-> first, vectors |-> expected])

\* two inputs; text_embedding has two elements of which one is no vector,
\* embeddings has two arrays, inference_results two vectors: the vectors of
\* embeddings are returned
C23_Witness ==
    /\ Parsed
    /\ log[1].arg = 2
    /\ log[1].outcome.val.text_embedding = Some([len |-> 2, valid |-> 1])
    /\ log[1].outcome.val.embeddings = Some([len |-> 2, valid |-> 2])
    /\ log[1].outcome.val.inference_results = Some([len |-> 2, valid |-> 2])
    /\ ret = Ok([shape |-> "embeddings", vectors |-> 2])

-----------------------------------------------------------------------------
(* Properties: the texts sent to the embedding backend *)

\* what is to be sent for a text: the text without the spaces around it, cut
\* after 8191 characters, or one space when nothing is left
Sendable(text) ==
    LET t == Stripped(text)
    IN  IF t = <<>> THEN <<" ">>
        ELSE IF Len(t) > 8191 THEN SubSeq(t, 1, 8191) ELSE t

\* the texts of the body of an inference request
TextsOf(body) ==
    IF body.input_type = "SEARCH" THEN <<body.input.text>> ELSE body.input.texts

C24_Step ==
    /\ (At("inferEmbedding", "start") /\ Len(stack') = 2)
         => stack'[2].input.text = Sendable(Top.text)
    /\ (At("inferEmbeddings", "loop") /\ Len(stack') = 2)
         => /\ Len(stack'[2].input.texts) = Len(Top.texts)
            /\ \A k \in 1..Len(Top.texts) :
                  stack'[2].input.texts[k] = Sendable(Top.texts[k])
    /\ (/\ stack # <<>>
        /\ Top.fn = "callInferenceApi"
        /\ Len(log') = Len(log) + 1
        /\ log'[Len(log')].ev = "POST_inference")
         => /\ log'[Len(log')].arg.input = Top.input
            /\ \A k \in 1..Len(TextsOf(log'[Len(log')].arg)) :
                  Len(TextsOf(log'[Len(log')].arg)[k]) \in 1..8191

\* C24: every text in the body of a request to the embedding backend, from
\* inferEmbedding and from inferEmbeddings, has between 1 and 8191
\* characters: it is the given text trimmed, cut after 8191 characters, or one
\* space when the trimmed text is empty.
C24_TextsSentAreNormalised == [][C24_Step]_vars

\* inferEmbeddings was given a text of 8192 letters between two spaces, and
\* a blank one: the request carried 8191 letters and one space
C24_Witness ==
    /\ At("inferEmbeddings", "batch")
    /\ Len(Top.texts) = 2
    /\ Len(Top.texts[1]) = 8194
    /\ LastEvent.ev = "POST_inference"
    /\ Len(LastEvent.arg.input.texts[1]) = 8191
    /\ LastEvent.arg.input.texts[1][1] = "a"
    /\ LastEvent.arg.input.texts[2] = <<" ">>

-----------------------------------------------------------------------------
(* Properties: over-fetch and candidates *)

C25_Step ==
    /\ (/\ Len(stack) = 1
        /\ Top.fn = "runSemanticSearch"
        /\ Len(stack') = 2
        /\ stack'[2].fn = "searchProducts")
         => stack'[2].optLimit = Some(Min(2 * Top.limit, 500))
    /\ (SearchSent /\ Len(stack) = 2 /\ stack[1].fn = "runSemanticSearch")
         => LET request    == log'[Len(log')].arg
                fetchLimit == Min(2 * stack[1].limit, 500)
            IN  /\ request.size = fetchLimit
                /\ request.k = fetchLimit
                /\ request.num_candidates = Max(2 * fetchLimit, 100)
                /\ request.num_candidates >= request.k

\* C25: for every effective limit, runSemanticSearch asks searchProducts
\* for fetchLimit = min(2 * limit, 500) results, and the request to the index
\* has size = k = fetchLimit and num_candidates = max(2 * fetchLimit, 100),
\* which is at least k.
C25_OverfetchAndCandidates == [][C25_Step]_vars

\* a search with the limit at its maximum: 500 results asked for, among 1000
\* candidates
C25_Witness ==
    /\ At("runSemanticSearch", "searched")
    /\ LastEvent.ev = "search"
    /\ Top.limit = 500
    /\ LastEvent.arg.size = 500
    /\ LastEvent.arg.k = 500
    /\ LastEvent.arg.num_candidates = 1000

-----------------------------------------------------------------------------
(* Properties: the steps of a sync *)

IsCall(e, fn) == e.ev = "call" /\ e.arg = fn

\* C26: in a sync the bulk upsert is sent once at most, after the rows were
\* fetched, then every embedding request was sent and the last one answered,
\* then ensureProductsIndex was called and went through without an error
\* (the index exists); and the summary of a sync that returns has total =
\* number of rows fetched, skipped = 0 and indexed + errors = total.
C26_SyncStepsInOrder ==
    TopLevel("syncProductsFromSupabase")
      => /\ Cardinality(BulkEvents) <= 1
         /\ \A b \in BulkEvents :
               /\ esExists
               /\ \E s, m, e \in 1..b :
                     /\ s < m /\ m < e /\ e < b
                     /\ log[s].ev = "select"
                     /\ log[s].outcome.kind = "ok"
                     /\ IsCall(log[m], "inferEmbeddings")
                     /\ IsCall(log[e], "ensureProductsIndex")
                     /\ \A j \in Posts(log) : m < j /\ j < e
                     /\ \E j \in Posts(log) :
                           /\ log[j].outcome.kind = "ok"
                           /\ \A i \in Posts(log) : i <= j
                     /\ \A j \in (e + 1)..(b - 1) :
                           /\ log[j].ev \in {"indices.exists", "indices.create", "call"}
                           /\ log[j].outcome.kind # "err"
         /\ Returned("syncProductsFromSupabase")
              => \E s \in 1..Len(log) :
                    /\ log[s].ev = "select"
                    /\ log[s].outcome.kind = "ok"
                    /\ ret.val.total = log[s].outcome.val
                    /\ ret.val.skipped = 0
                    /\ ret.val.indexed + ret.val.errors = ret.val.total

\* a sync of two rows has created the index, then upserted, and returned
C26_Witness ==
    /\ Returned("syncProductsFromSupabase")
    /\ BulkEvents # {}
    /\ \E j \in 1..Len(log) : log[j].ev = "indices.create" /\ log[j].outcome.kind = "ok"
    /\ ret.val.total = 2
    /\ ret.val.indexed = 2

-----------------------------------------------------------------------------
(* Properties: polling for the snapshot *)

Gets == {i \in 1..Len(log) : log[i].ev = "GET_snapshot"}

\* the answer to request i was the status 202
Answered202(i) == log[i].outcome.kind = "ok" /\ log[i].outcome.val = 202

PollSafe ==
    TopLevel("waitForSnapshot")
      => /\ Cardinality(Gets) <= 40
         /\ \A i, j \in Gets : i < j => Answered202(i)
         /\ (Done /\ ret.kind = "ok")
              => \E i \in Gets :
                    /\ \A j \in Gets : j <= i
                    /\ log[i].outcome.kind = "ok"
                    /\ log[i].outcome.val # 202
                    /\ log[i].outcome.val \in 200..299
         /\ \A i \in Gets :
               (log[i].outcome.kind = "ok" /\ log[i].outcome.val \notin 200..299)
                 => (Done /\ ret.kind = "err")
         /\ (Cardinality(Gets) = 40 /\ \A i \in Gets : Answered202(i))
              => (Done => ret.kind = "err")

\* C27: waitForSnapshot ends whatever the backend answers.  It sends 40
\* requests at most; a request follows only an answer 202; it returns
\* normally only after an answer with a 2xx status other than 202; an answer
\* with any other status makes it raise, and so does the 40th answer 202.
C27_PollingTerminates ==
    /\ []PollSafe
    /\ (stack # <<>>) ~> Done

\* forty answers 202: forty requests, then the time-out error
C27_Witness ==
    /\ Done
    /\ TopLevel("waitForSnapshot")
    /\ Cardinality(Gets) = 40
    /\ \A i \in Gets : Answered202(i)
    /\ ret = Err(PollTimeoutError)

-----------------------------------------------------------------------------
(* Properties: the counts of indexProducts *)

\* C28: when the index has answered the bulk request, indexProducts returns
\* indexed + errors = number of documents, every document the index reported
\* as failed is counted in errors, and indexed is the number of documents the
\* index accepted.
C28_IndexedIsAccepted ==
    (At("syncProductsFromSupabase", "indexed") /\ ret.kind = "ok" /\ BulkAnswered)
      => LET docs     == LastEvent.arg
             rejected == LastEvent.outcome.val.rejected
         IN  /\ ret.val.indexed + ret.val.errors = Cardinality(docs)
             /\ ret.val.errors = Cardinality(rejected)
             /\ ret.val.indexed = Cardinality(docs \ rejected)

-----------------------------------------------------------------------------
(* Properties: when a search syncs *)

\* C29: a search runs the sync only when the index is absent or holds no
\* document; on an index that holds documents, a failed exists or count
\* request does not make it run the sync.
C29_SyncOnlyWhenIndexEmpty ==
    (TopLevel("runSemanticSearch") /\ SyncTriggered)
      => (~es0.exists \/ es0.docs = EmptyDocs)

(* C30: on the search page, once every graph fetch issued has been answered
   (all of them with an ok response), the nodes displayed are the response to
   the query fetched last, whatever the order in which the responses arrived *)
C30_LatestQueryWins ==
    (page.issued # <<>> /\ page.inflight = {} /\ ~page.failed)
      => page.nodes = Some(page.issued[Len(page.issued)])

=============================================================================
